---- MODULE Spec2Model ----
(***************************************************************************)
(* Model of the ThorVG viewer panel (src/src/webview/ThorVGViewerPanel.ts) *)
(* and of the part of the webview bridge script (src/unnamed/part_001)     *)
(* that talks to it.                                                       *)
(*                                                                         *)
(* The extension host is single threaded: a handler runs from the event    *)
(* that starts it to its first await on host I/O (file read, open text     *)
(* document, open dialog), where it suspends and other events run.  An     *)
(* await on a promise that is already resolved continues in a microtask,   *)
(* before any other event, so it is not a suspension point of the model.   *)
(* Every suspended handler is a record in `tasks`.                         *)
(*                                                                         *)
(* A path is a sequence of one-character strings, so that the code's       *)
(* string operations (split, pop, toLowerCase, endsWith) are computed.     *)
(***************************************************************************)
EXTENDS Integers, Sequences, FiniteSets, TLC

\* ------------------------------------------------------------------------
\* Bounds and the host's universe of resources

\* Number of load invocations (loadFile dispatches started) followed per panel.
MaxLoads == 2

\* `undefined` where a uri or a document is expected (no path is empty)
Undefined == <<>>

PathA == <<"/", "a", ".", "j", "s", "o", "n">>
PathP == <<"/", "p", ".", "P", "N", "G">>
PathT == <<"/", "t", ".", "t", "x", "t">>

\* The resource handles the host can present: a Lottie text file, a PNG
\* (extension in upper case) and a file of an unsupported type.
Handles == {PathA, PathP, PathT}

\* The documents whose text the user edits.  The text of a document is read
\* (getText) only when its extension is a text one, so only that text is kept.
Documents == {PathA, PathP}
TextDocuments == {PathA}

\* In-memory text of a document: the text on disk, or an unsaved edit of it.
SavedText == "saved"
EditedText == "edited"
Texts == {SavedText, EditedText}

\* ------------------------------------------------------------------------
\* String operations of the code

UpperCase == <<"A", "B", "C", "D", "E", "F", "G", "H", "I", "J", "K", "L", "M",
               "N", "O", "P", "Q", "R", "S", "T", "U", "V", "W", "X", "Y", "Z">>
LowerCase == <<"a", "b", "c", "d", "e", "f", "g", "h", "i", "j", "k", "l", "m",
               "n", "o", "p", "q", "r", "s", "t", "u", "v", "w", "x", "y", "z">>

\* String.prototype.toLowerCase, one character
ToLowerChar(c) ==
    IF \E i \in 1..Len(UpperCase) : UpperCase[i] = c
    THEN LowerCase[CHOOSE i \in 1..Len(UpperCase) : UpperCase[i] = c]
    ELSE c

\* String.prototype.toLowerCase
ToLowerCase(s) == [i \in 1..Len(s) |-> ToLowerChar(s[i])]

\* String.prototype.endsWith
EndsWith(s, suffix) ==
    /\ Len(suffix) <= Len(s)
    /\ SubSeq(s, Len(s) - Len(suffix) + 1, Len(s)) = suffix

\* s.split(<any of seps>).pop(): the text after the last separator, all of s
\* when it holds none.
SplitPop(s, seps) ==
    LET idx == {i \in 1..Len(s) : s[i] \in seps}
    IN  IF idx = {} THEN s
        ELSE LET last == CHOOSE i \in idx : \A j \in idx : j <= i
             IN  SubSeq(s, last + 1, Len(s))

UnknownName == <<"u", "n", "k", "n", "o", "w", "n">>

\* fsPath.split(/[\\/]/).pop() || 'unknown'
FileNameOf(fsPath) ==
    LET n == SplitPop(fsPath, {"/", "\\"})
    IN  IF n = <<>> THEN UnknownName ELSE n

\* path.basename(uri.fsPath): trailing separators are dropped first
RECURSIVE StripTrailingSep(_)
StripTrailingSep(s) ==
    IF Len(s) > 1 /\ s[Len(s)] = "/" THEN StripTrailingSep(SubSeq(s, 1, Len(s) - 1))
    ELSE s

Basename(fsPath) == SplitPop(StripTrailingSep(fsPath), {"/"})

\* fileName.split('.').pop()?.toLowerCase()
ExtOf(fileName) == ToLowerCase(SplitPop(fileName, {"."}))

ExtJson == <<"j", "s", "o", "n">>
ExtLot == <<"l", "o", "t">>
ExtSvg == <<"s", "v", "g">>
ExtPng == <<"p", "n", "g">>

\* ext === 'json' || ext === 'lot' || ext === 'svg'
IsTextExt(ext) == ext = ExtJson \/ ext = ExtLot \/ ext = ExtSvg

\* Mutant: _isSupportedPath without toLowerCase
IsSupportedPath_CaseSensitive(filePath) ==
    \/ EndsWith(filePath, <<".">> \o ExtSvg)
    \/ EndsWith(filePath, <<".">> \o ExtJson)
    \/ EndsWith(filePath, <<".">> \o ExtLot)
    \/ EndsWith(filePath, <<".">> \o ExtPng)

\* _isSupportedPath
IsSupportedPath(filePath) ==
    LET lowerPath == ToLowerCase(filePath)
    IN  \/ EndsWith(lowerPath, <<".">> \o ExtSvg)
        \/ EndsWith(lowerPath, <<".">> \o ExtJson)
        \/ EndsWith(lowerPath, <<".">> \o ExtLot)
        \/ EndsWith(lowerPath, <<".">> \o ExtPng)

\* Mutant: _isSupportedFile accepts every document
IsSupportedFile_Any(document) == TRUE

\* _isSupportedFile: a TextDocument is identified with its uri, and
\* document.fileName is the uri's fsPath.
IsSupportedFile(document) == IsSupportedPath(document)

\* _urisEqual: a.toString() === b.toString()
UrisEqual(a, b) == a = b

\* ------------------------------------------------------------------------
\* The host editor surface: tabs

\* A tab input exposes its resource under one of several roles; a role that
\* is absent (or falsy) is Undefined.
TabInput(uri, modified, original, notebookUri) ==
    [uri |-> uri, modified |-> modified, original |-> original,
     notebookUri |-> notebookUri]

DirectTab(h) == TabInput(h, Undefined, Undefined, Undefined)
DiffTab(m, o) == TabInput(Undefined, m, o, Undefined)
NotebookTab(h) == TabInput(Undefined, Undefined, Undefined, h)

\* No tab input at all (activeTab?.input is undefined)
NoInput == TabInput(Undefined, Undefined, Undefined, Undefined)

\* vscode.window.tabGroups: `all` is the sequence of groups, each a sequence
\* of tab inputs; `group` and `tab` index the active group's active tab
\* (0: there is none).
NoTabs == [all |-> <<>>, group |-> 0, tab |-> 0]
PngTab == [all |-> << <<DirectTab(PathP)>> >>, group |-> 1, tab |-> 1]
TxtThenJson ==
    [all |-> << <<DirectTab(PathT)>>, <<DiffTab(PathT, PathA), DirectTab(PathA)>> >>,
     group |-> 1, tab |-> 1]
DiffJsonPng == [all |-> << <<DiffTab(PathA, PathP), NotebookTab(PathP)>> >>,
                group |-> 1, tab |-> 1]

TabLayouts == {NoTabs, PngTab, TxtThenJson, DiffJsonPng}

\* vscode.window.tabGroups.activeTabGroup?.activeTab?.input
ActiveTabInput(tg) ==
    IF tg.group = 0 \/ tg.tab = 0 THEN NoInput ELSE tg.all[tg.group][tg.tab]

\* Mutant: _getUriFromTabInput prefers the original side of a diff
GetUriFromTabInput_OriginalFirst(input) ==
    IF input.uri # Undefined THEN input.uri
    ELSE IF input.original # Undefined THEN input.original
    ELSE IF input.modified # Undefined THEN input.modified
    ELSE input.notebookUri

\* _getUriFromTabInput
GetUriFromTabInput(input) ==
    IF input = NoInput THEN Undefined
    ELSE IF input.uri # Undefined THEN input.uri
    ELSE IF input.modified # Undefined THEN input.modified
    ELSE IF input.original # Undefined THEN input.original
    ELSE IF input.notebookUri # Undefined THEN input.notebookUri
    ELSE Undefined

\* Mutant: the groups are enumerated from the last to the first
RECURSIVE FlattenTabs_LastGroupFirst(_)
FlattenTabs_LastGroupFirst(groups) ==
    IF groups = <<>> THEN <<>>
    ELSE FlattenTabs_LastGroupFirst(Tail(groups)) \o Head(groups)

\* The tabs of every group, in group order then tab order
RECURSIVE FlattenTabs(_)
FlattenTabs(groups) ==
    IF groups = <<>> THEN <<>> ELSE Head(groups) \o FlattenTabs(Tail(groups))

\* The fallback loop of _getActiveResourceUri: the first supported uri
RECURSIVE FirstSupportedTab(_)
FirstSupportedTab(tabSeq) ==
    IF tabSeq = <<>> THEN Undefined
    ELSE LET uri == GetUriFromTabInput(Head(tabSeq))
         IN  IF uri # Undefined /\ IsSupportedPath(uri) THEN uri
             ELSE FirstSupportedTab(Tail(tabSeq))

\* _getActiveResourceUri, with the host's active editor and tab groups
GetActiveResourceUri(editor, tg) ==
    IF editor # Undefined /\ IsSupportedPath(editor) THEN editor
    ELSE LET fromActiveTab == GetUriFromTabInput(ActiveTabInput(tg))
         IN  IF fromActiveTab # Undefined /\ IsSupportedPath(fromActiveTab)
             THEN fromActiveTab
             ELSE FirstSupportedTab(FlattenTabs(tg.all))

\* ------------------------------------------------------------------------
\* State

VARIABLES
    panelState,          \* "none", "live" (currentPanel is this panel), "disposed"
    createdBy,           \* the command that constructed the panel
    autoSyncEnabled,     \* _autoSyncEnabled
    currentDocument,     \* _currentDocument
    currentResourceUri,  \* _currentResourceUri
    webviewReady,        \* _webviewReady is resolved (_webviewReadyResolver cleared)
    tasks,               \* suspended handlers of the panel, oldest first
    posted,              \* messages posted to the panel's webview, in order
    nextId,              \* number of the next load invocation
    lastWriter,          \* the load invocation that last wrote _currentResourceUri
    activeTextEditor,    \* vscode.window.activeTextEditor?.document
    tabGroups,           \* vscode.window.tabGroups
    docText,             \* in-memory text of each document
    lastEvent,           \* the event whose handler ran last
    notices,             \* the notices the handler that ran last has shown
    workspaceFolders,    \* vscode.workspace.workspaceFolders
    saveDialog,          \* the save dialog an exportFile handler awaits
    applied,             \* the function application evaluated last
    openPanels,          \* webview panels created and not yet disposed
    fileWrite,           \* the writeFile an exportFile handler awaits
    writtenFiles,        \* the files the exportFile handler that ran last has written
    filesList,           \* window.filesList of the webview
    windowFilename,      \* window.filename of the webview
    loaded,              \* the file handed last to the viewer's loader
    toHost,              \* messages the bridge handler that ran last has posted to the host
    createObjectURL,     \* URL.createObjectURL of the webview
    anchorClick,         \* HTMLAnchorElement.prototype.click of the webview
    gifExports,          \* suspended GIF export click handlers, oldest first
    nextExport           \* number of the next GIF export click

vars == <<panelState, createdBy, autoSyncEnabled, currentDocument,
          currentResourceUri, webviewReady, tasks, posted, nextId, lastWriter,
          activeTextEditor, tabGroups, docText, lastEvent, notices,
          workspaceFolders, saveDialog, applied, openPanels, fileWrite,
          writtenFiles, filesList, windowFilename, loaded, toHost,
          createObjectURL, anchorClick, gifExports, nextExport>>

envVars == <<activeTextEditor, tabGroups, docText>>

\* What no panel command, host event or load handler touches
exportVars == <<workspaceFolders, saveDialog, applied, fileWrite, writtenFiles,
                filesList, windowFilename, loaded, toHost, createObjectURL,
                anchorClick, gifExports, nextExport>>

\* The state of the webview
bridgeVars == <<filesList, windowFilename, loaded, toHost, createObjectURL,
                anchorClick, gifExports, nextExport>>

\* No File: null
NullFile == [null |-> TRUE, name |-> <<>>, type |-> <<>>, bytes |-> <<>>]

\* A function of the browser that no script has replaced
Native == <<>>

\* The webview after its scripts have run: nothing is listed or loaded, no
\* message is posted, no export runs
BridgeIdle ==
    /\ filesList = <<>>
    /\ windowFilename = Undefined
    /\ loaded = NullFile
    /\ toHost = <<>>
    /\ createObjectURL = Native
    /\ anchorClick = Native
    /\ gifExports = <<>>
    /\ nextExport = 1

\* No function has been applied
NoCall == [fn |-> "none", input |-> Undefined, output |-> Undefined, done |-> FALSE]

Event(kind, arg) == [kind |-> kind, arg |-> arg]

\* The panel fields a handler reads and writes while it runs; `ready` and
\* `live` are read only.
Fields ==
    [doc |-> currentDocument, uri |-> currentResourceUri, tasks |-> tasks,
     posted |-> posted, nextId |-> nextId, writer |-> lastWriter,
     ready |-> webviewReady, live |-> panelState = "live", notices |-> <<>>]

\* The fields of a panel under construction (field initialisers, and the
\* pending _webviewReady promise of the constructor)
FreshFields ==
    [doc |-> Undefined, uri |-> Undefined, tasks |-> <<>>, posted |-> <<>>,
     nextId |-> 1, writer |-> 0, ready |-> FALSE, live |-> TRUE,
     notices |-> <<>>]

\* What the host shows while a handler runs
Env(editor, tg, texts) == [editor |-> editor, tabs |-> tg, text |-> texts]

\* Commit the fields a handler leaves behind
Commit(s) ==
    /\ currentDocument' = s.doc
    /\ currentResourceUri' = s.uri
    /\ tasks' = s.tasks
    /\ posted' = s.posted
    /\ nextId' = s.nextId
    /\ lastWriter' = s.writer
    /\ notices' = s.notices

\* ------------------------------------------------------------------------
\* Notices: vscode.window.show{Information,Warning,Error}Message

Notice(level, text) == [level |-> level, text |-> text]

NoActiveFile == Notice("warning", "No active file found")
SelectedNotSupported == Notice("warning", "Selected file is not a supported format")
CurrentNotSupported == Notice("warning", "Current file is not a supported format")
ViewerLoadError == Notice("error", "ThorVG Viewer: message.text")
ViewerError == Notice("error", "message.text")

ShowMessage(s, notice) == [s EXCEPT !.notices = Append(@, notice)]

\* Mutant: no warning is ever shown
Warn_Never(s, silentIfMissing, notice) == s

\* if (!silentIfMissing) { vscode.window.showWarningMessage(...) }
Warn(s, silentIfMissing, notice) ==
    IF silentIfMissing THEN s ELSE ShowMessage(s, notice)

\* ------------------------------------------------------------------------
\* File contents

\* document.getText(): the in-memory text, unsaved changes included
GetText(document, texts) ==
    [of |-> document,
     text |-> IF document \in DOMAIN texts THEN texts[document] ELSE SavedText]

\* What vscode.workspace.fs.readFile yields: the persisted content
ReadFile(uri) == [of |-> uri, text |-> SavedText]

\* new TextDecoder().decode(fileData)
TextData(content) == [scheme |-> "text", payload |-> content]

\* `data:${mime};base64,${Buffer.from(fileData).toString('base64')}`
DataUrl(mime, content) == [scheme |-> mime, payload |-> content]

MimePng == "image/png"
MimeOctet == "application/octet-stream"

NoData == [scheme |-> "none", payload |-> [of |-> Undefined, text |-> SavedText]]

\* ------------------------------------------------------------------------
\* Handlers.  A task is one invocation of a load path: `origin` is what
\* started it ("explicit": the open command, "editor": the active-editor
\* listener itself, "sync": _syncActiveResourceIfSupported, "textChange",
\* "pickFile"), `prev` the _currentResourceUri it found, `uri` the handle
\* it loads, `pc` the await it is suspended at, `rest` the files a pickFile
\* loop has still to send (the head is the one in hand), `picked` the whole
\* selection of the open dialog.

NewTask(s, origin, kind, uri) ==
    [id |-> s.nextId, origin |-> origin, kind |-> kind, pc |-> "start",
     uri |-> uri, prev |-> s.uri, fileName |-> Undefined, fileData |-> NoData,
     rest |-> <<>>, picked |-> <<>>]

Suspend(s, t, pc) == [s EXCEPT !.tasks = Append(@, [t EXCEPT !.pc = pc])]

LoadFileMessage(t) ==
    [command |-> "loadFile", fileName |-> t.fileName, fileData |-> t.fileData,
     id |-> t.id, origin |-> t.origin, uri |-> t.uri, prev |-> t.prev,
     picked |-> t.picked]

\* this._panel.webview.postMessage({command: 'loadFile', ...}): nothing
\* reaches the webview of a disposed panel.
PostMessage(s, t) ==
    IF s.live THEN [s EXCEPT !.posted = Append(@, LoadFileMessage(t))] ELSE s

\* Mutant: the pickFile loop ends after the first file
AfterPost_FirstOnly(s, t) == s

\* What follows postMessage: the pickFile loop goes on to read its next file,
\* every other path is done.
AfterPost(s, t) ==
    IF t.kind = "pickFile" /\ Len(t.rest) > 1
    THEN Suspend(s, [t EXCEPT !.rest = Tail(@)], "pickRead")
    ELSE s

\* Mutant: postMessage without awaiting the ready gate
EnsureWebviewReadyThenPost_NoGate(s, t) == AfterPost(PostMessage(s, t), t)

\* Mutant: every dispatch waits for a `ready` still to come
EnsureWebviewReadyThenPost_AlwaysWaits(s, t) == Suspend(s, t, "gate")

\* await this._ensureWebviewReady(); this._panel.webview.postMessage(...)
EnsureWebviewReadyThenPost(s, t) ==
    IF s.ready THEN AfterPost(PostMessage(s, t), t) ELSE Suspend(s, t, "gate")

\* _loadDocument, to its first suspension
LoadDocument(s, env, t0, document) ==
    LET s1 == [s EXCEPT !.doc = document, !.uri = document, !.writer = t0.id]
        fileName == FileNameOf(document)
        ext == ExtOf(fileName)
        t == [t0 EXCEPT !.uri = document, !.fileName = fileName]
    IN  IF IsTextExt(ext)
        THEN EnsureWebviewReadyThenPost(
                 s1, [t EXCEPT !.fileData = TextData(GetText(document, env.text))])
        ELSE Suspend(s1, t, "docRead")

\* _loadDocument resumed: readFile(document.uri) has returned
LoadDocumentRead(s, t) ==
    LET mime == IF ExtOf(t.fileName) = ExtPng THEN MimePng ELSE MimeOctet
    IN  EnsureWebviewReadyThenPost(
            s, [t EXCEPT !.fileData = DataUrl(mime, ReadFile(t.uri))])

\* _loadUri, to its first suspension
LoadUri(s, t0, uri) ==
    LET fileName == Basename(uri)
        ext == ExtOf(fileName)
        t == [t0 EXCEPT !.uri = uri, !.fileName = fileName]
    IN  IF IsTextExt(ext) THEN Suspend(s, t, "openDoc") ELSE Suspend(s, t, "readFile")

\* Mutant: _loadUri without `this._currentDocument = undefined`
LoadUriRead_KeepsDocument(s, t) ==
    LET mime == IF ExtOf(t.fileName) = ExtPng THEN MimePng ELSE MimeOctet
        s1 == [s EXCEPT !.uri = t.uri, !.writer = t.id]
    IN  EnsureWebviewReadyThenPost(
            s1, [t EXCEPT !.fileData = DataUrl(mime, ReadFile(t.uri))])

\* Mutant: _loadUri labels every binary file as an octet stream
LoadUriRead_OctetStream(s, t) ==
    LET s1 == [s EXCEPT !.doc = Undefined, !.uri = t.uri, !.writer = t.id]
    IN  EnsureWebviewReadyThenPost(
            s1, [t EXCEPT !.fileData = DataUrl(MimeOctet, ReadFile(t.uri))])

\* _loadUri resumed: readFile(uri) has returned
LoadUriRead(s, t) ==
    LET mime == IF ExtOf(t.fileName) = ExtPng THEN MimePng ELSE MimeOctet
        s1 == [s EXCEPT !.doc = Undefined, !.uri = t.uri, !.writer = t.id]
    IN  EnsureWebviewReadyThenPost(
            s1, [t EXCEPT !.fileData = DataUrl(mime, ReadFile(t.uri))])

\* Mutant: _loadCurrentFile without its test of the target's extension
LoadCurrentFile_AnyExtension(s, env, origin, resourceUri, silentIfMissing) ==
    LET targetUri == IF resourceUri # Undefined THEN resourceUri
                     ELSE GetActiveResourceUri(env.editor, env.tabs)
        activeDoc == env.editor
        t == NewTask(s, origin, "load", targetUri)
        s1 == [s EXCEPT !.nextId = @ + 1]
    IN  IF targetUri = Undefined THEN Warn(s, silentIfMissing, NoActiveFile)
        ELSE IF activeDoc # Undefined /\ UrisEqual(activeDoc, targetUri)
             THEN LoadDocument(s1, env, t, activeDoc)
        ELSE LoadUri(s1, t, targetUri)

\* _loadCurrentFile (the warnings it shows change no state of the panel)
LoadCurrentFile(s, env, origin, resourceUri, silentIfMissing) ==
    LET targetUri == IF resourceUri # Undefined THEN resourceUri
                     ELSE GetActiveResourceUri(env.editor, env.tabs)
        activeDoc == env.editor
        t == NewTask(s, origin, "load", targetUri)
        s1 == [s EXCEPT !.nextId = @ + 1]
    IN  IF targetUri = Undefined THEN Warn(s, silentIfMissing, NoActiveFile)
        ELSE IF ~IsSupportedPath(targetUri)
        THEN Warn(s, silentIfMissing, SelectedNotSupported)
        ELSE IF activeDoc # Undefined /\ UrisEqual(activeDoc, targetUri)
             THEN IF ~IsSupportedFile(activeDoc)
                  THEN Warn(s, silentIfMissing, CurrentNotSupported)
                  ELSE LoadDocument(s1, env, t, activeDoc)
        ELSE LoadUri(s1, t, targetUri)

\* Mutant: the sync falls back to _getActiveResourceUri, and so to the scan of
\* all tabs, when neither the active editor nor the active tab is supported
SyncActiveResourceIfSupported_Scan(s, env, origin) ==
    LET fromActiveTab == GetUriFromTabInput(ActiveTabInput(env.tabs))
    IN  IF env.editor # Undefined /\ IsSupportedPath(env.editor)
        THEN IF s.uri # Undefined /\ UrisEqual(s.uri, env.editor) THEN s
             ELSE LoadCurrentFile(s, env, origin, env.editor, TRUE)
        ELSE IF fromActiveTab # Undefined /\ IsSupportedPath(fromActiveTab)
        THEN IF s.uri # Undefined /\ UrisEqual(s.uri, fromActiveTab) THEN s
             ELSE LoadCurrentFile(s, env, origin, fromActiveTab, TRUE)
        ELSE LoadCurrentFile(s, env, origin, Undefined, TRUE)

\* Mutant: the sync looks at the active tab before the active editor
SyncActiveResourceIfSupported_TabFirst(s, env, origin) ==
    LET fromActiveTab == GetUriFromTabInput(ActiveTabInput(env.tabs))
    IN  IF fromActiveTab # Undefined /\ IsSupportedPath(fromActiveTab)
        THEN IF s.uri # Undefined /\ UrisEqual(s.uri, fromActiveTab) THEN s
             ELSE LoadCurrentFile(s, env, origin, fromActiveTab, TRUE)
        ELSE IF env.editor # Undefined /\ IsSupportedPath(env.editor)
        THEN IF s.uri # Undefined /\ UrisEqual(s.uri, env.editor) THEN s
             ELSE LoadCurrentFile(s, env, origin, env.editor, TRUE)
        ELSE s

\* Mutant: the sync without its "already showing this file" returns
SyncActiveResourceIfSupported_NoSkip(s, env, origin) ==
    LET fromActiveTab == GetUriFromTabInput(ActiveTabInput(env.tabs))
    IN  IF env.editor # Undefined /\ IsSupportedPath(env.editor)
        THEN LoadCurrentFile(s, env, origin, env.editor, TRUE)
        ELSE IF fromActiveTab # Undefined /\ IsSupportedPath(fromActiveTab)
        THEN LoadCurrentFile(s, env, origin, fromActiveTab, TRUE)
        ELSE s

\* _syncActiveResourceIfSupported
SyncActiveResourceIfSupported(s, env, origin) ==
    LET fromActiveTab == GetUriFromTabInput(ActiveTabInput(env.tabs))
    IN  IF env.editor # Undefined /\ IsSupportedPath(env.editor)
        THEN IF s.uri # Undefined /\ UrisEqual(s.uri, env.editor) THEN s
             ELSE LoadCurrentFile(s, env, origin, env.editor, TRUE)
        ELSE IF fromActiveTab # Undefined /\ IsSupportedPath(fromActiveTab)
        THEN IF s.uri # Undefined /\ UrisEqual(s.uri, fromActiveTab) THEN s
             ELSE LoadCurrentFile(s, env, origin, fromActiveTab, TRUE)
        ELSE s

\* Mutant: the listener clears the viewer's record when the editor focused
\* holds a file that is not supported
EditorChangeListener_ClearOnUnsupported(s, env, autoSync) ==
    IF autoSync /\ env.editor # Undefined /\ IsSupportedFile(env.editor)
    THEN LoadDocument([s EXCEPT !.nextId = @ + 1], env,
                      NewTask(s, "editor", "load", env.editor), env.editor)
    ELSE IF autoSync /\ env.editor # Undefined
    THEN [s EXCEPT !.doc = Undefined, !.uri = Undefined]
    ELSE IF autoSync THEN SyncActiveResourceIfSupported(s, env, "sync")
    ELSE s

\* The listener of onDidChangeActiveTextEditor
EditorChangeListener(s, env, autoSync) ==
    IF autoSync /\ env.editor # Undefined /\ IsSupportedFile(env.editor)
    THEN LoadDocument([s EXCEPT !.nextId = @ + 1], env,
                      NewTask(s, "editor", "load", env.editor), env.editor)
    ELSE IF autoSync THEN SyncActiveResourceIfSupported(s, env, "sync")
    ELSE s

\* The listeners of onDidChangeTabs and onDidChangeTabGroups
TabChangeListener(s, env, autoSync) ==
    IF autoSync THEN SyncActiveResourceIfSupported(s, env, "sync") ELSE s

\* Mutant: the listener reloads the current document on a change of any document
DocumentChangeListener_AnyDocument(s, env, autoSync, document) ==
    IF autoSync /\ s.doc # Undefined
    THEN LoadDocument([s EXCEPT !.nextId = @ + 1], env,
                      NewTask(s, "textChange", "load", s.doc), s.doc)
    ELSE s

\* The listener of onDidChangeTextDocument
DocumentChangeListener(s, env, autoSync, document) ==
    IF autoSync /\ s.doc # Undefined /\ document = s.doc
    THEN LoadDocument([s EXCEPT !.nextId = @ + 1], env,
                      NewTask(s, "textChange", "load", s.doc), s.doc)
    ELSE s

\* _setupAutoSync: the listeners are registered, then the initial sync runs
SetupAutoSync(s, env) == SyncActiveResourceIfSupported(s, env, "sync")

\* The constructor's autoSync parameter when the caller passes none
DefaultAutoSync == TRUE

\* The files a user may select in the open dialog (none: cancelled)
PickLists == {<<>>, <<PathA>>, <<PathT>>, <<PathP, PathA>>}

\* The pickFile loop resumed: readFile(fileUri) has returned
PickFileRead(s, t) ==
    LET fileUri == Head(t.rest)
        fileName == FileNameOf(fileUri)
        ext == ExtOf(fileName)
        fileContent == IF IsTextExt(ext) THEN TextData(ReadFile(fileUri))
                       ELSE IF ext = ExtPng THEN DataUrl(MimePng, ReadFile(fileUri))
                       ELSE DataUrl(MimeOctet, ReadFile(fileUri))
    IN  EnsureWebviewReadyThenPost(
            s, [t EXCEPT !.uri = fileUri, !.fileName = fileName,
                         !.fileData = fileContent])

\* Mutant: `ready` resumes none of the handlers awaiting _webviewReady
ReleaseGate_ResumesNone(s, waiting) == [s EXCEPT !.tasks = waiting]

\* _webviewReadyResolver(): the handlers awaiting _webviewReady continue, in
\* the order in which they began to wait.
RECURSIVE ReleaseGate(_, _)
ReleaseGate(s, waiting) ==
    IF waiting = <<>> THEN s
    ELSE LET t == Head(waiting)
         IN  IF t.pc = "gate"
             THEN ReleaseGate(AfterPost(PostMessage(s, t), t), Tail(waiting))
             ELSE ReleaseGate(Suspend(s, t, t.pc), Tail(waiting))

\* The sequence without its i-th element
RemoveAt(seq, i) == SubSeq(seq, 1, i - 1) \o SubSeq(seq, i + 1, Len(seq))

\* ------------------------------------------------------------------------
\* Initial state: the extension is activated, no panel exists

Init ==
    /\ panelState = "none"
    /\ createdBy = "none"
    /\ autoSyncEnabled = FALSE
    /\ currentDocument = Undefined
    /\ currentResourceUri = Undefined
    /\ webviewReady = FALSE
    /\ tasks = <<>>
    /\ posted = <<>>
    /\ nextId = 1
    /\ lastWriter = 0
    /\ activeTextEditor = Undefined
    /\ tabGroups = NoTabs
    /\ docText = [h \in TextDocuments |-> SavedText]
    /\ lastEvent = Event("activate", Undefined)
    /\ notices = <<>>
    /\ workspaceFolders = <<>>
    /\ saveDialog = Undefined
    /\ applied = NoCall
    /\ openPanels = 0
    /\ fileWrite = Undefined
    /\ writtenFiles = <<>>
    /\ BridgeIdle

\* ------------------------------------------------------------------------
\* Commands

\* Mutant: the commands never find a panel to reveal
HasCurrentPanel_Never == FALSE

\* if (ThorVGViewerPanel.currentPanel)
HasCurrentPanel == panelState = "live"

\* createWebviewPanel and
\* new ThorVGViewerPanel(panel, extensionUri, autoSync): the constructor
\* leaves the fields of SetupAutoSync behind.  The handlers of an earlier,
\* disposed panel act on that panel's fields only and are followed no further.
Constructor(autoSync, command) ==
    /\ openPanels' = openPanels + 1
    /\ panelState' = "live"
    /\ createdBy' = command
    /\ autoSyncEnabled' = autoSync
    /\ webviewReady' = FALSE

\* createOrShow
CreateOrShow ==
    /\ lastEvent' = Event(IF HasCurrentPanel THEN "reveal" ELSE "createOrShow",
                           Undefined)
    /\ UNCHANGED envVars
    /\ UNCHANGED exportVars
    /\ IF HasCurrentPanel
       THEN /\ UNCHANGED <<panelState, createdBy, autoSyncEnabled, webviewReady,
                           currentDocument, currentResourceUri, tasks, posted,
                           nextId, lastWriter, openPanels>>
            /\ notices' = <<>>
       ELSE /\ Constructor(DefaultAutoSync, "createOrShow")
            /\ Commit(SetupAutoSync(FreshFields,
                                    Env(activeTextEditor, tabGroups, docText)))

\* createOrShowWithCurrentFile(extensionUri, resourceUri)
CreateOrShowWithCurrentFile(resourceUri) ==
    LET env == Env(activeTextEditor, tabGroups, docText)
    IN  /\ lastEvent' = Event(IF HasCurrentPanel THEN "open"
                               ELSE "createOrShowWithCurrentFile", resourceUri)
        /\ UNCHANGED envVars
        /\ UNCHANGED exportVars
        /\ IF HasCurrentPanel
           THEN /\ nextId <= MaxLoads
                /\ UNCHANGED <<panelState, createdBy, autoSyncEnabled, webviewReady,
                               openPanels>>
                /\ Commit(LoadCurrentFile(Fields, env, "explicit", resourceUri, FALSE))
           ELSE /\ Constructor(TRUE, "createOrShowWithCurrentFile")
                /\ Commit(LoadCurrentFile(SetupAutoSync(FreshFields, env), env,
                                          "explicit", resourceUri, FALSE))

\* dispose(): currentPanel is cleared, the panel and every listener disposed
Dispose ==
    /\ panelState = "live"
    /\ panelState' = "disposed"
    /\ openPanels' = openPanels - 1
    /\ lastEvent' = Event("dispose", Undefined)
    /\ UNCHANGED <<createdBy, autoSyncEnabled, currentDocument, currentResourceUri,
                   webviewReady, tasks, posted, nextId, lastWriter>>
    /\ notices' = <<>>
    /\ UNCHANGED envVars
    /\ UNCHANGED exportVars

\* ------------------------------------------------------------------------
\* Host events.  The listeners are registered by the constructor and disposed
\* by dispose(), so a host event runs a handler only while the panel is live.

Listening == panelState = "live"

\* Host events are followed while a panel can still start a load
Budget == panelState = "none" \/ nextId <= MaxLoads

\* What a listener leaves behind, when it is registered
Heard(s) == IF Listening THEN s ELSE Fields

\* Mutant: a handler switches auto-sync
UnchangedPanel_SwitchesAutoSync ==
    /\ autoSyncEnabled' = ~autoSyncEnabled
    /\ UNCHANGED <<panelState, createdBy, webviewReady, exportVars, openPanels>>

UnchangedPanel ==
    UNCHANGED <<panelState, createdBy, autoSyncEnabled, webviewReady, exportVars,
                openPanels>>

\* onDidChangeActiveTextEditor(editor)
EditorChange(editor) ==
    /\ Budget
    /\ activeTextEditor' = editor
    /\ UNCHANGED <<tabGroups, docText>>
    /\ lastEvent' = Event("editor", Undefined)
    /\ UnchangedPanel
    /\ Commit(Heard(EditorChangeListener(
                        Fields, Env(editor, tabGroups, docText), autoSyncEnabled)))

\* onDidChangeTabs
TabsChange(tg) ==
    /\ Budget
    /\ tabGroups' = tg
    /\ UNCHANGED <<activeTextEditor, docText>>
    /\ lastEvent' = Event("tabs", Undefined)
    /\ UnchangedPanel
    /\ Commit(Heard(TabChangeListener(
                        Fields, Env(activeTextEditor, tg, docText),
                        autoSyncEnabled)))

\* onDidChangeTabGroups
TabGroupsChange(tg) ==
    /\ Budget
    /\ tabGroups' = tg
    /\ UNCHANGED <<activeTextEditor, docText>>
    /\ lastEvent' = Event("tabGroups", Undefined)
    /\ UnchangedPanel
    /\ Commit(Heard(TabChangeListener(
                        Fields, Env(activeTextEditor, tg, docText),
                        autoSyncEnabled)))

\* onDidChangeTextDocument(e): the text of e.document has changed
TextChange(document) ==
    LET texts == IF document \in DOMAIN docText
                 THEN [docText EXCEPT ![document] =
                           IF @ = SavedText THEN EditedText ELSE SavedText]
                 ELSE docText
    IN  /\ Budget
        /\ docText' = texts
        /\ UNCHANGED <<activeTextEditor, tabGroups>>
        /\ lastEvent' = Event("textChange", document)
        /\ UnchangedPanel
        /\ Commit(Heard(DocumentChangeListener(
                            Fields, Env(activeTextEditor, tabGroups, texts),
                            autoSyncEnabled, document)))

\* ------------------------------------------------------------------------
\* Messages from the webview.  The bridge posts `ready` when the viewer's
\* document has loaded, and pickFile from click listeners installed by then;
\* the channel is FIFO, so a pickFile is received after a `ready`.

\* case 'ready'
Ready ==
    /\ panelState = "live"
    /\ lastEvent' = Event(IF webviewReady THEN "readyAgain" ELSE "ready", Undefined)
    /\ UNCHANGED <<panelState, createdBy, autoSyncEnabled, openPanels>>
    /\ UNCHANGED envVars
    /\ UNCHANGED exportVars
    /\ webviewReady' = TRUE
    /\ IF ~webviewReady
       THEN Commit(ReleaseGate([Fields EXCEPT !.tasks = <<>>, !.ready = TRUE], tasks))
       ELSE Commit(Fields)

\* case 'pickFile', to the await of showOpenDialog
PickFile ==
    /\ panelState = "live"
    /\ webviewReady
    /\ nextId <= MaxLoads
    /\ lastEvent' = Event("pickFile", Undefined)
    /\ UnchangedPanel
    /\ UNCHANGED envVars
    /\ Commit(Suspend([Fields EXCEPT !.nextId = @ + 1],
                      NewTask(Fields, "pickFile", "pickFile", Undefined), "dialog"))

\* Mutant: the handler of a viewer error forgets what is displayed
ViewerErrorHandler_Rollback(s, notice) ==
    [ShowMessage(s, notice) EXCEPT !.doc = Undefined, !.uri = Undefined]

\* case 'loadError' and case 'showError': the notice is shown, nothing else
\* of the panel is touched.
ViewerErrorHandler(s, notice) == ShowMessage(s, notice)

\* case 'loadError': the bridge reports that the player failed on a file
LoadError ==
    /\ panelState = "live"
    /\ webviewReady
    /\ lastEvent' = Event("loadError", Undefined)
    /\ UnchangedPanel
    /\ UNCHANGED envVars
    /\ Commit(ViewerErrorHandler(Fields, ViewerLoadError))

\* case 'showError': the bridge reports a failed export
ShowError ==
    /\ panelState = "live"
    /\ webviewReady
    /\ lastEvent' = Event("showError", Undefined)
    /\ UnchangedPanel
    /\ UNCHANGED envVars
    /\ Commit(ViewerErrorHandler(Fields, ViewerError))

\* ------------------------------------------------------------------------
\* Completion of host I/O: the i-th suspended handler resumes

Resumed(i) == [Fields EXCEPT !.tasks = RemoveAt(tasks, i)]

\* showOpenDialog returns the selection
DialogReturns(i, fileUris) ==
    /\ tasks[i].pc = "dialog"
    /\ lastEvent' = Event("resume", Undefined)
    /\ UnchangedPanel
    /\ UNCHANGED envVars
    /\ Commit(IF Len(fileUris) > 0
              THEN Suspend(Resumed(i),
                           [tasks[i] EXCEPT !.rest = fileUris, !.picked = fileUris],
                           "pickRead")
              ELSE Resumed(i))

\* readFile / openTextDocument returns
ReadReturns(i) ==
    LET t == tasks[i]
        env == Env(activeTextEditor, tabGroups, docText)
    IN  /\ t.pc \in {"openDoc", "readFile", "docRead", "pickRead"}
        /\ lastEvent' = Event("resume", Undefined)
        /\ UnchangedPanel
        /\ UNCHANGED envVars
        /\ Commit(CASE t.pc = "openDoc" -> LoadDocument(Resumed(i), env, t, t.uri)
                    [] t.pc = "readFile" -> LoadUriRead(Resumed(i), t)
                    [] t.pc = "docRead" -> LoadDocumentRead(Resumed(i), t)
                    [] t.pc = "pickRead" -> PickFileRead(Resumed(i), t))

\* Mutant: the pickFile loop catches a failed read and goes on to the next file
ReadFails_SkipsFile(i) ==
    /\ tasks[i].pc \in {"openDoc", "readFile", "docRead", "pickRead"}
    /\ lastEvent' = Event("fail", Undefined)
    /\ UnchangedPanel
    /\ UNCHANGED envVars
    /\ Commit(AfterPost(Resumed(i), tasks[i]))

\* readFile / openTextDocument rejects: the handler ends with the exception
ReadFails(i) ==
    /\ tasks[i].pc \in {"openDoc", "readFile", "docRead", "pickRead"}
    /\ lastEvent' = Event("fail", Undefined)
    /\ UnchangedPanel
    /\ UNCHANGED envVars
    /\ Commit(Resumed(i))

Next ==
    \/ CreateOrShow
    \/ \E r \in Handles \cup {Undefined} : CreateOrShowWithCurrentFile(r)
    \/ Dispose
    \/ \E e \in Handles \cup {Undefined} : EditorChange(e)
    \/ \E tg \in TabLayouts : TabsChange(tg)
    \/ \E tg \in TabLayouts : TabGroupsChange(tg)
    \/ \E d \in Documents : TextChange(d)
    \/ Ready
    \/ PickFile
    \/ LoadError
    \/ ShowError
    \/ \E i \in 1..Len(tasks) : \E f \in PickLists : DialogReturns(i, f)
    \/ \E i \in 1..Len(tasks) : ReadReturns(i)
    \/ \E i \in 1..Len(tasks) : ReadFails(i)

Spec == Init /\ [][Next]_vars

\* ------------------------------------------------------------------------
\* Export: case 'exportFile'

\* path.dirname (posix): the path without its last segment
Dirname(fsPath) ==
    LET p == StripTrailingSep(fsPath)
        idx == {i \in 1..Len(p) : p[i] = "/"}
    IN  IF idx = {} THEN <<".">>
        ELSE LET last == CHOOSE i \in idx : \A j \in idx : j <= i
             IN  IF last = 1 THEN <<"/">> ELSE SubSeq(p, 1, last - 1)

\* vscode.Uri.joinPath(base, name), for a name of one segment
JoinPath(base, name) ==
    IF base[Len(base)] = "/" THEN base \o name ELSE base \o <<"/">> \o name

\* vscode.Uri.file(path): a uri is identified with the path it is made from
UriFile(fsPath) == fsPath

ExportStem == <<"e", "x", "p", "o", "r", "t">>
TypePng == <<"p", "n", "g">>
TypeGif == <<"g", "i", "f">>
FileTypes == {TypePng, TypeGif}

\* name.replace(/\.[^/.]+$/, ''): the name without its last extension
StripExt(name) ==
    LET idx == {i \in 1..(Len(name) - 1) :
                   /\ name[i] = "."
                   /\ \A j \in (i + 1)..Len(name) : name[j] \notin {".", "/"}}
    IN  IF idx = {} THEN name
        ELSE SubSeq(name, 1, (CHOOSE i \in idx : TRUE) - 1)

\* The bridge's file name of an export:
\* (window.filename || 'export').replace(/\.[^/.]+$/, '') + '.' + type
BridgeExportName(filename, fileType) ==
    StripExt(IF filename # Undefined THEN filename ELSE ExportStem)
        \o <<".">> \o fileType

\* message.fileName || `export.${message.fileType}` (an absent or empty name
\* is falsy)
DefaultFileName(message) ==
    IF message.fileName # Undefined THEN message.fileName
    ELSE ExportStem \o <<".">> \o message.fileType

\* Mutant: the workspace folder is preferred to the document's directory
ExportDefaultUri_WorkspaceFirst(document, folders, message) ==
    LET baseFolderUri == IF Len(folders) > 0 THEN folders[1]
                         ELSE IF document # Undefined THEN UriFile(Dirname(document))
                         ELSE Undefined
    IN  IF baseFolderUri # Undefined
        THEN JoinPath(baseFolderUri, DefaultFileName(message))
        ELSE UriFile(DefaultFileName(message))

\* defaultUri of case 'exportFile'
ExportDefaultUri(document, folders, message) ==
    LET baseFolderUri == IF document # Undefined THEN UriFile(Dirname(document))
                         ELSE IF Len(folders) > 0 THEN folders[1]
                         ELSE Undefined
    IN  IF baseFolderUri # Undefined
        THEN JoinPath(baseFolderUri, DefaultFileName(message))
        ELSE UriFile(DefaultFileName(message))

PathD == <<"/", "d", "/", "b", ".", "s", "v", "g">>
PathW == <<"/", "w">>
PathV == <<"/", "v">>

\* What a panel can hold when an export is requested: the document of the
\* last _loadDocument with its uri, or no document and the uri of a binary
\* _loadUri, or nothing
LoadedStates ==
    {<<d, d>> : d \in {PathA, PathP, PathD}}
        \cup {<<Undefined, Undefined>>, <<Undefined, PathP>>}

WorkspaceLayouts == {<<>>, <<PathW>>, <<PathW, PathV>>}

\* A ready panel with some file loaded, in some workspace
ExportInit ==
    /\ panelState = "live"
    /\ createdBy = "createOrShow"
    /\ autoSyncEnabled = DefaultAutoSync
    /\ \E l \in LoadedStates :
           /\ currentDocument = l[1]
           /\ currentResourceUri = l[2]
    /\ webviewReady = TRUE
    /\ tasks = <<>>
    /\ posted = <<>>
    /\ nextId = 1
    /\ lastWriter = 0
    /\ activeTextEditor = Undefined
    /\ tabGroups = NoTabs
    /\ docText = [h \in TextDocuments |-> SavedText]
    /\ lastEvent = Event("ready", Undefined)
    /\ notices = <<>>
    /\ workspaceFolders \in WorkspaceLayouts
    /\ saveDialog = Undefined
    /\ applied = NoCall
    /\ openPanels = 1
    /\ fileWrite = Undefined
    /\ writtenFiles = <<>>
    /\ BridgeIdle


\* ------------------------------------------------------------------------
\* Vocabulary of the claims

\* Every load invocation on record: the suspended ones and the posted ones
Suspended == {tasks[i] : i \in 1..Len(tasks)}
Posted == {posted[i] : i \in 1..Len(posted)}

\* The handlers waiting at the ready gate, oldest first
AtGate(t) == t.pc = "gate"
GateWaiters(ts) == SelectSeq(ts, AtGate)

\* The loadFile messages of a sequence of tasks
MessagesOf(ts) == [i \in 1..Len(ts) |-> LoadFileMessage(ts[i])]

\* ------------------------------------------------------------------------
\* C1: no loadFile is posted before the host has received `ready`; when
\* `ready` is received every dispatch waiting at the gate is posted, once,
\* in the order of arrival, and no dispatch is ever posted twice.
C1_ReadyGate ==
    /\ [](~webviewReady => posted = <<>>)
    /\ [](\A i, j \in 1..Len(posted) :
             (i # j /\ posted[i].id = posted[j].id) =>
                 (posted[i].origin = "pickFile" /\ posted[i].uri # posted[j].uri))
    /\ [](\A t \in Suspended : \A m \in Posted :
             (AtGate(t) /\ m.id = t.id) => (t.origin = "pickFile" /\ m.uri # t.uri))
    /\ [][(~webviewReady /\ webviewReady') =>
             /\ posted' = MessagesOf(GateWaiters(tasks))
             /\ GateWaiters(tasks') = <<>>]_vars

\* Two dispatches reached the gate before `ready` and `ready` has released them
C1_Witness ==
    /\ lastEvent.kind = "ready"
    /\ Len(posted) = 2
    /\ posted[1].id # posted[2].id

\* ------------------------------------------------------------------------
\* C2 as claimed: no resolver invocation, passive or explicit, dispatches a
\* load for a candidate equal to the DisplayedResource it found.
ResolverOrigins == {"explicit", "editor", "sync"}

C3_DisplayedAfterPost ==
    currentResourceUri # Undefined =>
        \E m \in Posted : m.uri = currentResourceUri

\* ------------------------------------------------------------------------
\* C4 as claimed: in a quiescent state with DisplayedResource = h, the last
\* loadFile posted to the viewer carried the file name of h.
C4_DisplayedIsLastPosted ==
    (panelState = "live" /\ tasks = <<>> /\ currentResourceUri # Undefined
        /\ posted # <<>>) =>
        posted[Len(posted)].fileName = FileNameOf(currentResourceUri)

\* ------------------------------------------------------------------------
\* C5 as claimed: at most one resolver load is in flight.
C5_OneLoadInFlight ==
    Cardinality({t \in Suspended : t.kind = "load"}) <= 1

\* ------------------------------------------------------------------------
\* C6 as claimed: once all the loads requested have completed, that is each
\* has posted its loadFile, DisplayedResource and the last loadFile posted
\* are those of the load requested last.
AllLoadsPosted ==
    /\ tasks = <<>>
    /\ Len(posted) = nextId - 1
    /\ \A i \in 1..Len(posted) : posted[i].origin \in ResolverOrigins
    /\ \A i, j \in 1..Len(posted) : i # j => posted[i].id # posted[j].id

C6_LaterRequestWins ==
    (panelState = "live" /\ nextId > 1 /\ AllLoadsPosted) =>
        /\ posted[Len(posted)].id = nextId - 1
        /\ lastWriter = nextId - 1
        /\ currentResourceUri = posted[Len(posted)].uri

\* ------------------------------------------------------------------------
\* C7 as claimed: when a resolver load of a candidate other than the
\* DisplayedResource it found posts its loadFile, the message carries the
\* candidate's file name and DisplayedResource is the candidate.
C7_LoadCompletes ==
    [][\A k \in (Len(posted) + 1)..Len(posted') :
          (posted'[k].origin \in ResolverOrigins /\ posted'[k].prev # posted'[k].uri) =>
              /\ posted'[k].fileName = FileNameOf(posted'[k].uri)
              /\ currentResourceUri' = posted'[k].uri]_vars

\* ------------------------------------------------------------------------
\* The one load a text-change event starts, as it stands right after the
\* event: posted if the gate is open, else waiting at the gate
StartedOne(fileName, fileData) ==
    IF webviewReady
    THEN /\ tasks' = tasks
         /\ Len(posted') = Len(posted) + 1
         /\ SubSeq(posted', 1, Len(posted)) = posted
         /\ posted'[Len(posted')].fileName = fileName
         /\ posted'[Len(posted')].fileData = fileData
    ELSE /\ posted' = posted
         /\ Len(tasks') = Len(tasks) + 1
         /\ SubSeq(tasks', 1, Len(tasks)) = tasks
         /\ tasks'[Len(tasks')].pc = "gate"
         /\ tasks'[Len(tasks')].fileName = fileName
         /\ tasks'[Len(tasks')].fileData = fileData

\* The one _loadDocument run of a document that is not of a text type, as it
\* stands right after the event: awaiting readFile
StartedRead(document) ==
    /\ posted' = posted
    /\ Len(tasks') = Len(tasks) + 1
    /\ SubSeq(tasks', 1, Len(tasks)) = tasks
    /\ tasks'[Len(tasks')].pc = "docRead"
    /\ tasks'[Len(tasks')].uri = document

NothingStarted ==
    /\ posted' = posted
    /\ tasks' = tasks
    /\ currentResourceUri' = currentResourceUri
    /\ currentDocument' = currentDocument

HeardTextChange ==
    /\ lastEvent'.kind = "textChange"
    /\ panelState = "live"
    /\ autoSyncEnabled

\* C8 as claimed: a text change of _currentDocument dispatches one loadFile
\* with the document's in-memory text, a text change of any other document
\* dispatches nothing.
C8_TextChangeSendsText ==
    [][HeardTextChange =>
          IF currentDocument # Undefined /\ lastEvent'.arg = currentDocument
          THEN StartedOne(FileNameOf(currentDocument),
                          TextData(GetText(currentDocument, docText')))
          ELSE NothingStarted]_vars

\* C8 as amended: the loadFile carries the in-memory text when
\* _currentDocument has a text extension (json, lot, svg); for a document of
\* another extension (a .png open as text) one _loadDocument run starts that
\* reads the file from storage instead.
C8_TextChangeReloads ==
    [][HeardTextChange =>
          IF currentDocument # Undefined /\ lastEvent'.arg = currentDocument
          THEN IF IsTextExt(ExtOf(FileNameOf(currentDocument)))
               THEN StartedOne(FileNameOf(currentDocument),
                               TextData(GetText(currentDocument, docText')))
               ELSE StartedRead(currentDocument)
          ELSE NothingStarted]_vars

\* The text of the current document has just changed and the loadFile posted
\* last carries the unsaved text
C8_Witness ==
    /\ lastEvent.kind = "textChange"
    /\ lastEvent.arg = currentDocument
    /\ panelState = "live"
    /\ posted # <<>>
    /\ posted[Len(posted)].origin = "textChange"
    /\ posted[Len(posted)].fileData =
           TextData([of |-> currentDocument, text |-> EditedText])

\* ------------------------------------------------------------------------
\* C9 as claimed, AutoSyncMode being off for the panels that plain "open
\* viewer" creates (C10): such a panel makes no passive load.
PassiveOrigins == {"sync", "editor", "textChange"}

C10_AutoSyncByCommand ==
    panelState # "none" =>
        (autoSyncEnabled <=> createdBy = "createOrShowWithCurrentFile")

\* ------------------------------------------------------------------------
\* Vocabulary of the focus events

\* A focus event (active editor, tabs, tab groups) that the panel hears
FocusEvent ==
    /\ lastEvent'.kind \in {"editor", "tabs", "tabGroups"}
    /\ panelState = "live"

\* What the host shows after the event
FocusedDocument == activeTextEditor'
FocusedTabUri == GetUriFromTabInput(ActiveTabInput(tabGroups'))

UnsupportedFocus ==
    FocusedDocument # Undefined /\ ~IsSupportedPath(FocusedDocument)

\* The handler of the event has started no load, posted nothing and left
\* _currentDocument and _currentResourceUri as they were
NothingLoaded ==
    /\ currentResourceUri' = currentResourceUri
    /\ currentDocument' = currentDocument
    /\ posted' = posted
    /\ tasks' = tasks

\* C11 as claimed: a focus event whose focused document is of an unsupported
\* type starts no load and leaves DisplayedResource and _currentDocument alone.
C11_UnsupportedFocusKeeps ==
    [][(FocusEvent /\ UnsupportedFocus) => NothingLoaded]_vars

\* C11 as amended: so it is when, besides, the focused tab resolves to no
\* supported handle or to the handle already displayed; a focused tab with
\* another supported handle is loaded although the focused document is not
\* supported.
C11_UnsupportedFocusAndTabKeeps ==
    [][(FocusEvent /\ UnsupportedFocus
           /\ (\/ FocusedTabUri = Undefined
               \/ ~IsSupportedPath(FocusedTabUri)
               \/ FocusedTabUri = currentResourceUri)) => NothingLoaded]_vars

\* Focus has moved from the displayed a.json to an editor on t.txt, with a.json
\* still open in another tab: a.json is still the DisplayedResource
C11_Witness ==
    /\ lastEvent.kind = "editor"
    /\ panelState = "live" /\ autoSyncEnabled
    /\ activeTextEditor = PathT
    /\ tabGroups = TxtThenJson
    /\ currentResourceUri = PathA /\ currentDocument = PathA
    /\ tasks = <<>> /\ Len(posted) = 1

\* ------------------------------------------------------------------------
\* The loads a step has started are those numbered from FirstNewId on (a panel
\* under construction numbers its loads from 1).
Constructing == lastEvent'.kind \in {"createOrShow", "createOrShowWithCurrentFile"}
FirstNewId == IF Constructing THEN 1 ELSE nextId

\* A resolver load that looked for its candidate itself: a sync, or an
\* explicit open without a resource argument
ResolvedItself(t) ==
    \/ t.origin = "sync"
    \/ t.origin = "explicit" /\ lastEvent'.arg = Undefined

BothSupported ==
    /\ FocusedDocument # Undefined /\ IsSupportedPath(FocusedDocument)
    /\ FocusedTabUri # Undefined /\ IsSupportedPath(FocusedTabUri)
    /\ FocusedTabUri # FocusedDocument

\* C12: when a supported focused document and a differing supported focused
\* tab handle are both present, every load a sync or an explicit open without
\* argument starts is for the focused document's handle, and
\* _getActiveResourceUri returns that handle.
C12_DocumentWins ==
    [][BothSupported =>
          /\ GetActiveResourceUri(activeTextEditor', tabGroups') = FocusedDocument
          /\ \A t \in Suspended' :
                 (t.id >= FirstNewId /\ ResolvedItself(t)) => t.uri = FocusedDocument
          /\ \A k \in 1..Len(posted') :
                 (posted'[k].id >= FirstNewId /\ ResolvedItself(posted'[k])) =>
                     posted'[k].uri = FocusedDocument]_vars

\* "Open viewer with current file", without argument, has created the panel
\* while a.json was the focused document and p.PNG the focused tab: the
\* initial sync and the explicit open have both chosen a.json
C12_Witness ==
    /\ lastEvent = Event("createOrShowWithCurrentFile", Undefined)
    /\ activeTextEditor = PathA
    /\ tabGroups = PngTab
    /\ Len(tasks) = 2
    /\ tasks[1].origin = "sync" /\ tasks[1].uri = PathA
    /\ tasks[2].origin = "explicit" /\ tasks[2].uri = PathA

\* ------------------------------------------------------------------------
\* C13: every load a passive tick starts (the active-editor listener itself,
\* or a sync) is for the focused document's handle or the focused tab's
\* resolved handle, and an explicit open with a resource argument loads that
\* argument: only an explicit open without argument can load a handle found
\* by the scan of all tabs.
PassiveTickOrigins == {"sync", "editor"}

FocusCandidates == {FocusedDocument, FocusedTabUri} \ {Undefined}

FromFocusOrArgument(t) ==
    /\ t.origin \in PassiveTickOrigins => t.uri \in FocusCandidates
    /\ (t.origin = "explicit" /\ lastEvent'.arg # Undefined) =>
           t.uri = lastEvent'.arg

C13_NoScanOnPassiveTick ==
    [][/\ \A t \in Suspended' : t.id >= FirstNewId => FromFocusOrArgument(t)
       /\ \A k \in 1..Len(posted') :
              posted'[k].id >= FirstNewId => FromFocusOrArgument(posted'[k])]_vars

\* A tab event with no supported focused document or focused tab, while the
\* scan of all tabs would find a.json: nothing has been loaded
C13_Witness ==
    /\ lastEvent.kind \in {"tabs", "tabGroups"}
    /\ panelState = "live" /\ autoSyncEnabled
    /\ activeTextEditor = Undefined
    /\ tabGroups = TxtThenJson
    /\ GetActiveResourceUri(activeTextEditor, tabGroups) = PathA
    /\ currentResourceUri = Undefined
    /\ tasks = <<>> /\ posted = <<>> /\ nextId = 1

\* ------------------------------------------------------------------------
\* Vocabulary of the explicit open ("open viewer with current file")

\* The command runs on the live panel
OpenOnPanel == lastEvent'.kind = "open"

\* The command constructs the panel, then runs _loadCurrentFile
OpenCreatesPanel == lastEvent'.kind = "createOrShowWithCurrentFile"

ExplicitOpen == OpenOnPanel \/ OpenCreatesPanel

\* The new panel has started no load and displays nothing
NothingLoadedByNewPanel ==
    /\ currentResourceUri' = Undefined
    /\ currentDocument' = Undefined
    /\ posted' = <<>>
    /\ tasks' = <<>>

NoFocusCandidate ==
    /\ ~(FocusedDocument # Undefined /\ IsSupportedPath(FocusedDocument))
    /\ ~(FocusedTabUri # Undefined /\ IsSupportedPath(FocusedTabUri))

\* C14: with no candidate handle, a passive tick starts no load, shows no
\* notice and leaves DisplayedResource alone; an explicit open shows the one
\* "no active file" warning, starts no load and leaves DisplayedResource alone.
C14_NoCandidate ==
    [][/\ (FocusEvent /\ NoFocusCandidate) => (NothingLoaded /\ notices' = <<>>)
       /\ (ExplicitOpen /\ lastEvent'.arg = Undefined
              /\ GetActiveResourceUri(activeTextEditor', tabGroups') = Undefined) =>
             /\ notices' = <<NoActiveFile>>
             /\ OpenOnPanel => NothingLoaded
             /\ OpenCreatesPanel => NothingLoadedByNewPanel]_vars

\* An explicit open without argument has found no candidate while a.json was
\* displayed: the warning is shown and a.json is still the DisplayedResource
C14_Witness ==
    /\ lastEvent = Event("open", Undefined)
    /\ GetActiveResourceUri(activeTextEditor, tabGroups) = Undefined
    /\ notices = <<NoActiveFile>>
    /\ currentResourceUri = PathA
    /\ tasks = <<>> /\ Len(posted) = 1

\* ------------------------------------------------------------------------
UnsupportedTarget ==
    ExplicitOpen /\ lastEvent'.arg # Undefined /\ ~IsSupportedPath(lastEvent'.arg)

\* A passive tick shows no notice, and one that finds no supported handle
\* starts no load and changes nothing
SilentPassiveTick ==
    FocusEvent => /\ notices' = <<>>
                  /\ NoFocusCandidate => NothingLoaded

\* C15 as claimed: an explicit open of a target of an unsupported type shows
\* one warning, starts no load and changes no state; a passive tick that meets
\* an unsupported type is a silent no-op.
C15_UnsupportedTarget ==
    [][/\ UnsupportedTarget =>
             /\ notices' = <<SelectedNotSupported>>
             /\ OpenOnPanel => NothingLoaded
             /\ OpenCreatesPanel => NothingLoadedByNewPanel
       /\ SilentPassiveTick]_vars

\* C15 as amended: so it is on a panel that exists; when the command has to
\* create the panel, the constructor's initial sync may load the focused file,
\* and the explicit open itself starts no load.
C15_UnsupportedTargetOnPanel ==
    [][/\ UnsupportedTarget =>
             /\ notices' = <<SelectedNotSupported>>
             /\ OpenOnPanel => NothingLoaded
             /\ OpenCreatesPanel =>
                    /\ posted' = <<>>
                    /\ \A t \in Suspended' : t.origin = "sync"
       /\ SilentPassiveTick]_vars

\* An explicit open of t.txt on a panel that displays a.json: the warning is
\* shown and a.json is still the DisplayedResource
C15_Witness ==
    /\ lastEvent = Event("open", PathT)
    /\ notices = <<SelectedNotSupported>>
    /\ currentResourceUri = PathA
    /\ tasks = <<>> /\ Len(posted) = 1

\* ------------------------------------------------------------------------
\* The handler suspended at position i has just ended with the exception of
\* its host read
ReadFailed(i) ==
    /\ lastEvent'.kind = "fail"
    /\ tasks[i].pc \in {"openDoc", "readFile", "docRead", "pickRead"}
    /\ tasks' = RemoveAt(tasks, i)

\* C16 as claimed: when the host read of a load fails, a notice is shown,
\* nothing is posted for the load, and DisplayedResource is what it was
\* before the load started.
C16_ReadFailureNotice ==
    [][\A i \in 1..Len(tasks) :
          ReadFailed(i) =>
              /\ notices' # <<>>
              /\ posted' = posted
              /\ tasks[i].kind = "load" => currentResourceUri' = tasks[i].prev]_vars

\* ------------------------------------------------------------------------
\* C17: a loadError or showError message from the viewer makes the host show
\* one error notice and do nothing else: _currentResourceUri and
\* _currentDocument stay, nothing is posted to the viewer and no handler is
\* left suspended.
C17_ViewerErrorOnlyNotice ==
    [][lastEvent'.kind \in {"loadError", "showError"} =>
          /\ Len(notices') = 1
          /\ notices'[1].level = "error"
          /\ NothingLoaded
          /\ UNCHANGED <<panelState, createdBy, autoSyncEnabled, webviewReady,
                         nextId, lastWriter>>]_vars

\* The viewer has reported a load failure while a.json was displayed: the
\* error is shown and a.json is still the DisplayedResource
C17_Witness ==
    /\ lastEvent.kind = "loadError"
    /\ notices = <<ViewerLoadError>>
    /\ currentResourceUri = PathA /\ currentDocument = PathA
    /\ tasks = <<>> /\ Len(posted) = 1

\* ------------------------------------------------------------------------
\* The content a loadFile for the handle should carry when it is posted: the
\* in-memory text of a document of a text type, the persisted bytes of any
\* other file as a data URI
LiveContent(uri, texts) ==
    LET ext == ExtOf(FileNameOf(uri))
    IN  IF IsTextExt(ext) THEN TextData(GetText(uri, texts))
        ELSE DataUrl(IF ext = ExtPng THEN MimePng ELSE MimeOctet, ReadFile(uri))

\* C18 as claimed: every loadFile a handler posts as it builds it (on any
\* path, pickFile included) carries the in-memory text of a text resource,
\* unsaved changes included, and the persisted bytes of a binary resource.
C18_LiveTextOnEveryPath ==
    [][lastEvent'.kind # "ready" =>
          \A k \in (Len(posted) + 1)..Len(posted') :
              posted'[k].fileData = LiveContent(posted'[k].uri, docText')]_vars

\* ------------------------------------------------------------------------
\* The handles of the loadFile messages posted for invocation id, in order
UrisPostedFor(msgs, id) ==
    LET Mine(m) == m.id = id
        mine == SelectSeq(msgs, Mine)
    IN  [j \in 1..Len(mine) |-> mine[j].uri]

\* The pickFile handler suspended at position i has just got a file's bytes
PickReadReturned(i) ==
    /\ lastEvent'.kind = "resume"
    /\ panelState = "live"
    /\ tasks[i].pc = "pickRead"
    /\ SubSeq(tasks', 1, Len(tasks) - 1) = RemoveAt(tasks, i)

\* The open dialog of the pickFile handler at position i has just returned
\* no file
PickCancelled(i) ==
    /\ lastEvent'.kind = "resume"
    /\ tasks[i].pc = "dialog"
    /\ tasks' = RemoveAt(tasks, i)

\* C19: while the panel lives, the files a pickFile handler has posted,
\* followed by those it has still to read, are the selection f1..fn in order;
\* each read that returns posts the next file, the last one completing the
\* n messages; a cancelled or empty selection posts nothing.
C19_PickForwardsSelection ==
    /\ [](panelState = "live" =>
             \A t \in Suspended :
                 t.pc = "pickRead" =>
                     UrisPostedFor(posted, t.id) \o t.rest = t.picked)
    /\ [][\A i \in 1..Len(tasks) :
              /\ PickReadReturned(i) =>
                     /\ Len(posted') = Len(posted) + 1
                     /\ posted'[Len(posted')].uri = Head(tasks[i].rest)
                     /\ posted'[Len(posted')].fileName =
                            FileNameOf(Head(tasks[i].rest))
                     /\ IF Len(tasks[i].rest) = 1
                        THEN /\ UrisPostedFor(posted', tasks[i].id) = tasks[i].picked
                             /\ \A t \in Suspended' : t.id # tasks[i].id
                        ELSE \E t \in Suspended' :
                                 t.id = tasks[i].id /\ t.pc = "pickRead"
              /\ PickCancelled(i) =>
                     /\ posted' = posted
                     /\ UrisPostedFor(posted', tasks[i].id) = <<>>]_vars

\* The user has picked p.PNG and a.json, and both have been posted, in that
\* order, by one pickFile handler
C19_Witness ==
    /\ panelState = "live"
    /\ tasks = <<>>
    /\ Len(posted) = 2
    /\ posted[1].origin = "pickFile" /\ posted[1].id = posted[2].id
    /\ posted[1].picked = <<PathP, PathA>>
    /\ <<posted[1].uri, posted[2].uri>> = <<PathP, PathA>>

\* ------------------------------------------------------------------------
\* The exportFile message whose save dialog is open
Requested == lastEvent.arg

ExportGif == <<"e", "x", "p", "o", "r", "t", ".", "g", "i", "f">>

\* The uri names a file of that name beside the document
BesideDocument(uri, name, document) ==
    /\ Len(uri) > Len(name)
    /\ SubSeq(uri, Len(uri) - Len(name) + 1, Len(uri)) = name
    /\ SubSeq(uri, 1, Len(uri) - Len(name)) =
           SubSeq(document, 1, Len(document) - Len(FileNameOf(document)))

\* C20: the default location of an export's save dialog is the file name in
\* the directory of _currentDocument when there is one, else in the first
\* workspace folder, else the bare file name; the file name is the one the
\* viewer supplies, or export.<fileType>; so fileType gif without name,
\* without document and with the one workspace folder /w gives /w/export.gif.
C20_DefaultSaveLocation ==
    saveDialog # Undefined =>
        LET name == IF Requested.fileName # <<>> THEN Requested.fileName
                    ELSE ExportStem \o <<".">> \o Requested.fileType
            uri == saveDialog.defaultUri
        IN  /\ currentDocument # Undefined =>
                   BesideDocument(uri, name, currentDocument)
            /\ (currentDocument = Undefined /\ workspaceFolders # <<>>) =>
                   uri = workspaceFolders[1] \o <<"/">> \o name
            /\ (currentDocument = Undefined /\ workspaceFolders = <<>>) =>
                   uri = name
            /\ (currentDocument = Undefined /\ workspaceFolders = <<PathW>>
                   /\ Requested.fileType = TypeGif /\ Requested.fileName = <<>>) =>
                   uri = <<"/", "w", "/">> \o ExportGif

\* The save dialog of a gif export without file name is open, no document
\* is loaded and /w is the one workspace folder
C20_Witness ==
    /\ saveDialog # Undefined
    /\ lastEvent.kind = "exportFile"
    /\ Requested.fileType = TypeGif /\ Requested.fileName = <<>>
    /\ currentDocument = Undefined
    /\ workspaceFolders = <<PathW>>
    /\ saveDialog.defaultUri = <<"/", "w", "/">> \o ExportGif

\* ------------------------------------------------------------------------
\* Function applications.  The functions of the panel and of the bridge that
\* depend on their argument only are applied to arguments drawn from bounded
\* sets; `applied` holds the argument and, once the function has been
\* applied, what the code computes from it.

Asked(fn, input) == [fn |-> fn, input |-> input, output |-> Undefined, done |-> FALSE]

Return(output) == [applied EXCEPT !.output = output, !.done = TRUE]

Asks(fn) == applied.fn = fn /\ ~applied.done

UnchangedByCall ==
    UNCHANGED <<panelState, createdBy, autoSyncEnabled, currentDocument,
                currentResourceUri, webviewReady, tasks, posted, nextId,
                lastWriter, activeTextEditor, tabGroups, docText, lastEvent,
                notices, workspaceFolders, saveDialog, openPanels, fileWrite,
                writtenFiles, filesList, windowFilename, loaded, toHost,
                createObjectURL, anchorClick, gifExports, nextExport>>

\* Paths: a directory, a stem and a tail, in every combination
SampleDirs == {<<"/">>, <<"/", "D", "/">>, <<"/", "d", ".", "p", "n", "g", "/">>}
SampleStems == {<<>>, <<"a">>, <<"a", ".", "b">>, <<"j", "s", "o", "n">>,
                <<"A", ".", "S", "V", "G">>}
SampleTails ==
    {<<>>, <<".">>, <<".", "s", "v", "g">>, <<".", "S", "V", "G">>,
     <<".", "j", "s", "o", "n">>, <<".", "J", "s", "o", "n">>,
     <<".", "l", "o", "t">>, <<".", "L", "o", "T">>,
     <<".", "p", "n", "g">>, <<".", "P", "N", "G">>,
     <<".", "t", "x", "t">>, <<".", "p", "n">>, <<".", "p", "n", "g", "x">>,
     <<".", "j", "s", "o", "n", ".", "b", "a", "k">>, <<"p", "n", "g">>}
SamplePaths == {d \o n \o t : d \in SampleDirs, n \in SampleStems, t \in SampleTails}

\* _isSupportedPath(filePath) and _isSupportedFile of the document at that
\* path, and _loadCurrentFile(filePath) on a panel that has loaded nothing,
\* the path being that of the active editor's document or of no open document
ApplyIsSupportedPath ==
    /\ Asks("isSupportedPath")
    /\ LET filePath == applied.input.filePath
           asDocument == applied.input.asDocument
       IN  applied' =
               Return([supported |-> IsSupportedPath(filePath),
                       file |-> IsSupportedFile(filePath),
                       load |-> LoadCurrentFile(
                                    FreshFields,
                                    Env(IF asDocument THEN filePath ELSE Undefined,
                                        NoTabs, docText),
                                    "explicit", filePath, FALSE)])
    /\ UnchangedByCall

\* Binary content on its way to the viewer.  A byte is a number in 0..255,
\* a string a sequence of characters.

MaxBytes == 4
ByteSamples == {0, 80, 137, 251, 255}
ByteStrings == UNION {[1..n -> ByteSamples] : n \in 0..MaxBytes}

Digits == <<"0", "1", "2", "3", "4", "5", "6", "7", "8", "9">>

\* Mutant: the url-safe alphabet of 'base64url'
Base64Alphabet_UrlSafe == UpperCase \o LowerCase \o Digits \o <<"-", "_">>

\* The alphabet of Buffer's 'base64' encoding; character i + 1 stands for
\* the six bits of value i
Base64Alphabet == UpperCase \o LowerCase \o Digits \o <<"+", "/">>

Base64Pad == "="

\* Buffer.from(fileData).toString('base64'): three bytes give four
\* characters, a last group of one or two bytes is padded with '='
RECURSIVE ToBase64(_)
ToBase64(bytes) ==
    IF Len(bytes) = 0 THEN <<>>
    ELSE IF Len(bytes) = 1
    THEN LET n == bytes[1] * 16
         IN  <<Base64Alphabet[(n \div 64) + 1], Base64Alphabet[(n % 64) + 1],
               Base64Pad, Base64Pad>>
    ELSE IF Len(bytes) = 2
    THEN LET n == bytes[1] * 1024 + bytes[2] * 4
         IN  <<Base64Alphabet[(n \div 4096) + 1],
               Base64Alphabet[((n \div 64) % 64) + 1],
               Base64Alphabet[(n % 64) + 1], Base64Pad>>
    ELSE LET n == bytes[1] * 65536 + bytes[2] * 256 + bytes[3]
         IN  <<Base64Alphabet[(n \div 262144) + 1],
               Base64Alphabet[((n \div 4096) % 64) + 1],
               Base64Alphabet[((n \div 64) % 64) + 1],
               Base64Alphabet[(n % 64) + 1]>>
             \o ToBase64(SubSeq(bytes, 4, Len(bytes)))

DataPrefix == <<"d", "a", "t", "a", ":">>
Base64Marker == <<";", "b", "a", "s", "e", "6", "4">>
ImagePng == <<"i", "m", "a", "g", "e", "/", "p", "n", "g">>
OctetStream == <<"a", "p", "p", "l", "i", "c", "a", "t", "i", "o", "n", "/",
                 "o", "c", "t", "e", "t", "-", "s", "t", "r", "e", "a", "m">>
ApplicationJson == <<"a", "p", "p", "l", "i", "c", "a", "t", "i", "o", "n", "/",
                     "j", "s", "o", "n">>
ImageSvg == <<"i", "m", "a", "g", "e", "/", "s", "v", "g", "+", "x", "m", "l">>

\* `data:${mime};base64,${base64}`
DataUrlString(mime, bytes) ==
    DataPrefix \o mime \o Base64Marker \o <<",">> \o ToBase64(bytes)

\* The binary branch of _loadUri, _loadDocument and pickFile
EncodeBinary(fileName, bytes) ==
    IF ExtOf(fileName) = ExtPng THEN DataUrlString(ImagePng, bytes)
    ELSE DataUrlString(OctetStream, bytes)

\* String.prototype.split(sep), sep one character
RECURSIVE Split(_, _)
Split(s, sep) ==
    LET idx == {i \in 1..Len(s) : s[i] = sep}
    IN  IF idx = {} THEN <<s>>
        ELSE LET first == CHOOSE i \in idx : \A j \in idx : i <= j
             IN  <<SubSeq(s, 1, first - 1)>> \o Split(SubSeq(s, first + 1, Len(s)), sep)

\* String.prototype.startsWith, at position i
StartsWithAt(s, prefix, i) ==
    /\ i + Len(prefix) - 1 <= Len(s)
    /\ SubSeq(s, i, i + Len(prefix) - 1) = prefix

LineTerminators == {"\n", "\r"}

\* meta.match(/data:(.*?);base64/): the leftmost `data:`, then the shortest
\* run without line terminators that `;base64` follows; [1] is that run,
\* and there is no match when mimeMatch is null.
MimeMatch(meta) ==
    LET fits(i, j) ==
            /\ StartsWithAt(meta, DataPrefix, i)
            /\ j >= i + Len(DataPrefix)
            /\ StartsWithAt(meta, Base64Marker, j)
            /\ \A k \in (i + Len(DataPrefix))..(j - 1) : meta[k] \notin LineTerminators
        pairs == {ij \in (1..Len(meta)) \X (1..Len(meta)) : fits(ij[1], ij[2])}
    IN  IF pairs = {} THEN [matched |-> FALSE, group |-> <<>>]
        ELSE LET ij == CHOOSE x \in pairs :
                           \A y \in pairs :
                               x[1] < y[1] \/ (x[1] = y[1] /\ x[2] <= y[2])
             IN  [matched |-> TRUE,
                  group |-> SubSeq(meta, ij[1] + Len(DataPrefix), ij[2] - 1)]

\* The alphabet atob decodes
AtobAlphabet == UpperCase \o LowerCase \o Digits \o <<"+", "/">>

AsciiWhitespace == {" ", "\t", "\n", "\f", "\r"}

SextetOf(c) == (CHOOSE i \in 1..Len(AtobAlphabet) : AtobAlphabet[i] = c) - 1

\* The bytes of a run of characters of the alphabet whose length is not
\* 1 modulo 4; the bits left over by a last group of two or three characters
\* are dropped.
RECURSIVE SextetsToBytes(_)
SextetsToBytes(chars) ==
    IF Len(chars) = 0 THEN <<>>
    ELSE IF Len(chars) = 2
    THEN LET n == SextetOf(chars[1]) * 64 + SextetOf(chars[2])
         IN  <<n \div 16>>
    ELSE IF Len(chars) = 3
    THEN LET n == SextetOf(chars[1]) * 4096 + SextetOf(chars[2]) * 64
                  + SextetOf(chars[3])
         IN  <<n \div 1024, (n \div 4) % 256>>
    ELSE LET n == SextetOf(chars[1]) * 262144 + SextetOf(chars[2]) * 4096
                  + SextetOf(chars[3]) * 64 + SextetOf(chars[4])
         IN  <<n \div 65536, (n \div 256) % 256, n % 256>>
             \o SextetsToBytes(SubSeq(chars, 5, Len(chars)))

\* atob(base64): whitespace is removed, one or two '=' are removed from the
\* end of a text whose length is a multiple of four, and the call throws
\* when what is left has a length of 1 modulo 4 or a character outside the
\* alphabet.
Atob(base64) ==
    LET NotSpace(c) == c \notin AsciiWhitespace
        text == SelectSeq(base64, NotSpace)
        n == Len(text)
        pads == IF n % 4 = 0 /\ n > 0 /\ text[n] = Base64Pad
                THEN IF text[n - 1] = Base64Pad THEN 2 ELSE 1
                ELSE 0
        chars == SubSeq(text, 1, n - pads)
        valid == /\ Len(chars) % 4 # 1
                 /\ \A i \in 1..Len(chars) :
                        \E k \in 1..Len(AtobAlphabet) : AtobAlphabet[k] = chars[i]
    IN  IF valid THEN [thrown |-> FALSE, bytes |-> SextetsToBytes(chars)]
        ELSE [thrown |-> TRUE, bytes |-> <<>>]

\* new Blob([arr], {type}), or the exception that prevented it
Blob(type, bytes) == [thrown |-> FALSE, type |-> type, bytes |-> bytes]
Thrown == [thrown |-> TRUE, type |-> <<>>, bytes |-> <<>>]

\* base64ToBlob
Base64ToBlob(base64, type) ==
    LET decoded == Atob(base64)
    IN  IF decoded.thrown THEN Thrown ELSE Blob(type, decoded.bytes)

\* dataUrlToBlob: arr[i] = bytes.charCodeAt(i) copies the decoded bytes
DataUrlToBlob(dataUrl) ==
    LET parts == Split(dataUrl, ",")
        meta == parts[1]
        base64 == IF Len(parts) >= 2 THEN parts[2] ELSE <<>>
        mimeMatch == MimeMatch(meta)
        contentType == IF mimeMatch.matched THEN mimeMatch.group ELSE OctetStream
    IN  Base64ToBlob(base64, contentType)

\* new TextEncoder().encode(text) for the text a Blob is built from: the
\* texts applied here are ASCII, one byte a character
Utf8(text) == [i \in 1..Len(text) |-> <<"byte of", text[i]>>]

\* createFileFromData(fileName, data, ext) for data that is a string: the
\* File built, or null after an exception
CreateFileFromData(fileName, data, ext) ==
    LET blob == IF ext = ExtJson \/ ext = ExtLot THEN Blob(ApplicationJson, Utf8(data))
                ELSE IF ext = ExtSvg THEN Blob(ImageSvg, Utf8(data))
                ELSE IF StartsWithAt(data, DataPrefix, 1) THEN DataUrlToBlob(data)
                ELSE Base64ToBlob(data, OctetStream)
    IN  IF blob.thrown THEN NullFile
        ELSE [null |-> FALSE, name |-> fileName, type |-> blob.type,
              bytes |-> blob.bytes]

\* processFileData(fileName, fileData) for a file that is not json or lot
ProcessFileData(fileName, fileData) ==
    CreateFileFromData(fileName, fileData, ExtOf(fileName))

\* The names of the binary files of Handles
BinaryNames == {Basename(PathP), Basename(PathT)}

\* The host reads fileData, encodes it and posts it; the bridge builds the
\* viewer's File from the message
ApplyDataUrlToBlob ==
    /\ Asks("dataUrlToBlob")
    /\ LET fileName == applied.input.fileName
           fileContent == EncodeBinary(fileName, applied.input.fileData)
       IN  applied' = Return([fileContent |-> fileContent,
                              file |-> ProcessFileData(fileName, fileContent)])
    /\ UnchangedByCall

\* Tab inputs with every combination of roles
TabRoles == {Undefined, PathA, PathT}
TabInputs ==
    {TabInput(u, m, o, n) : u \in TabRoles, m \in TabRoles, o \in TabRoles,
                            n \in TabRoles}

\* The tab groups whose only tab, the active one, has this input
OneTab(input) == [all |-> << <<input>> >>, group |-> 1, tab |-> 1]

\* _getUriFromTabInput(input), and what the resolver makes of the tab when
\* it is the active tab and no text editor is active: _getActiveResourceUri,
\* _syncActiveResourceIfSupported and _loadCurrentFile() on a panel that has
\* loaded nothing
ApplyGetUriFromTabInput ==
    /\ Asks("getUriFromTabInput")
    /\ LET input == applied.input.input
           env == Env(Undefined, OneTab(input), docText)
       IN  applied' =
               Return([uri |-> GetUriFromTabInput(input),
                       candidate |-> GetActiveResourceUri(Undefined, OneTab(input)),
                       sync |-> SyncActiveResourceIfSupported(FreshFields, env, "sync"),
                       open |-> LoadCurrentFile(FreshFields, env, "explicit",
                                                Undefined, FALSE)])
    /\ UnchangedByCall

\* Tab groups: up to MaxTabs open tabs, divided into consecutive groups in
\* every way; the active tab is any of the tabs, and there is none when no
\* tab is open.
MaxTabs == 3
ScanTabs == {DirectTab(PathT), DirectTab(PathA), DirectTab(PathP), DiffTab(PathT, PathA)}
TabSeqs == UNION {[1..n -> ScanTabs] : n \in 0..MaxTabs}

\* The group of the i-th tab when a new group begins after each tab in cuts
GroupOfTab(cuts, i) == 1 + Cardinality({c \in cuts : c < i})

\* tabGroups with the tabs of tabSeq, divided after each tab in cuts, the
\* a-th tab being the active tab of the active group
DividedTabs(tabSeq, cuts, a) ==
    LET tabsOf(g) == {i \in 1..Len(tabSeq) : GroupOfTab(cuts, i) = g}
        first(g) == CHOOSE i \in tabsOf(g) : \A j \in tabsOf(g) : i <= j
        last(g) == CHOOSE i \in tabsOf(g) : \A j \in tabsOf(g) : j <= i
    IN  IF tabSeq = <<>> THEN NoTabs
        ELSE [all |-> [g \in 1..(1 + Cardinality(cuts)) |->
                          SubSeq(tabSeq, first(g), last(g))],
              group |-> GroupOfTab(cuts, a),
              tab |-> a - first(GroupOfTab(cuts, a)) + 1]

ScanLayouts ==
    UNION {{DividedTabs(tabSeq, cuts, a) :
                cuts \in SUBSET (1..(Len(tabSeq) - 1)),
                a \in IF tabSeq = <<>> THEN {0} ELSE 1..Len(tabSeq)} :
           tabSeq \in TabSeqs}
ScanEditors == {Undefined, PathT}

\* _getActiveResourceUri(), and _loadCurrentFile() with no resource on a
\* panel that has loaded nothing
ApplyGetActiveResourceUri ==
    /\ Asks("getActiveResourceUri")
    /\ LET editor == applied.input.editor
           tg == applied.input.tabs
       IN  applied' =
               Return([candidate |-> GetActiveResourceUri(editor, tg),
                       open |-> LoadCurrentFile(FreshFields, Env(editor, tg, docText),
                                                "explicit", Undefined, FALSE)])
    /\ UnchangedByCall

\* The arguments
Questions ==
    {Asked("isSupportedPath", [filePath |-> f, asDocument |-> b]) :
         f \in SamplePaths, b \in BOOLEAN}
    \cup {Asked("dataUrlToBlob", [fileName |-> n, fileData |-> b]) :
              n \in BinaryNames, b \in ByteStrings}
    \cup {Asked("getUriFromTabInput", [input |-> i]) : i \in TabInputs}
    \cup {Asked("getActiveResourceUri", [editor |-> e, tabs |-> tg]) :
              e \in ScanEditors, tg \in ScanLayouts}

\* No panel exists; some argument is given
FunctionInit ==
    /\ panelState = "none"
    /\ createdBy = "none"
    /\ autoSyncEnabled = FALSE
    /\ currentDocument = Undefined
    /\ currentResourceUri = Undefined
    /\ webviewReady = FALSE
    /\ tasks = <<>>
    /\ posted = <<>>
    /\ nextId = 1
    /\ lastWriter = 0
    /\ activeTextEditor = Undefined
    /\ tabGroups = NoTabs
    /\ docText = [h \in TextDocuments |-> SavedText]
    /\ lastEvent = Event("activate", Undefined)
    /\ notices = <<>>
    /\ workspaceFolders = <<>>
    /\ saveDialog = Undefined
    /\ applied \in Questions
    /\ openPanels = 0
    /\ fileWrite = Undefined
    /\ writtenFiles = <<>>
    /\ BridgeIdle

FunctionNext ==
    \/ ApplyIsSupportedPath
    \/ ApplyDataUrlToBlob
    \/ ApplyGetUriFromTabInput
    \/ ApplyGetActiveResourceUri

FunctionSpec == FunctionInit /\ [][FunctionNext]_vars

\* ------------------------------------------------------------------------
\* C21: a path is supported exactly when it holds a '.' and the text after
\* its final '.', lower-cased, is svg, json, lot or png, whatever the case of
\* its letters; _isSupportedFile agrees with _isSupportedPath; a load of a
\* supported path takes the text branch (live text or openTextDocument) for
\* json, lot and svg and the binary branch (readFile) for png, and a path
\* that is not supported is not loaded.

HasDot(filePath) == \E i \in 1..Len(filePath) : filePath[i] = "."

FinalDot(filePath) ==
    CHOOSE i \in 1..Len(filePath) :
        filePath[i] = "." /\ \A j \in (i + 1)..Len(filePath) : filePath[j] # "."

\* The text after the final '.', lower-cased
Extension(filePath) ==
    ToLowerCase(SubSeq(filePath, FinalDot(filePath) + 1, Len(filePath)))

SupportedExtensions == {ExtSvg, ExtJson, ExtLot, ExtPng}
TextExtensions == {ExtSvg, ExtJson, ExtLot}

SupportedFormat(filePath) ==
    HasDot(filePath) /\ Extension(filePath) \in SupportedExtensions

C21_SupportedByExtension ==
    (applied.fn = "isSupportedPath" /\ applied.done) =>
        LET filePath == applied.input.filePath
            asDocument == applied.input.asDocument
            out == applied.output
            loads == out.load.tasks
        IN  /\ out.supported <=> SupportedFormat(filePath)
            /\ out.file = out.supported
            /\ out.supported = IsSupportedPath(ToLowerCase(filePath))
            /\ ~out.supported =>
                   /\ loads = <<>>
                   /\ out.load.notices = <<SelectedNotSupported>>
            /\ out.supported =>
                   /\ Len(loads) = 1
                   /\ out.load.notices = <<>>
                   /\ Extension(filePath) \in TextExtensions =>
                          IF asDocument
                          THEN /\ loads[1].pc = "gate"
                               /\ loads[1].fileData.scheme = "text"
                          ELSE loads[1].pc = "openDoc"
                   /\ Extension(filePath) = ExtPng =>
                          loads[1].pc = IF asDocument THEN "docRead" ELSE "readFile"

\* An upper-case .PNG in a directory is supported and read as binary
C21_Witness ==
    /\ applied.fn = "isSupportedPath"
    /\ applied.done
    /\ applied.input.filePath = <<"/", "D", "/", "a", ".", "P", "N", "G">>
    /\ ~applied.input.asDocument
    /\ applied.output.supported
    /\ applied.output.load.tasks[1].pc = "readFile"

\* ------------------------------------------------------------------------
\* C22: a loadFile that _loadUri or _loadDocument builds for a handle ending
\* in .png carries a data:image/png;base64 url, and one they build for any
\* other handle carries text; a data:application/octet-stream;base64 url is
\* built by the pickFile handler only, for a file whose extension is not
\* supported.

\* The handlers that run _loadUri or _loadDocument
LoadOrigins == ResolverOrigins \cup {"textChange"}

\* The loadFile messages built so far: those posted and those waiting at the gate
Built == Posted \cup {LoadFileMessage(t) : t \in {w \in Suspended : AtGate(w)}}

C22_PngDataUrl ==
    \A m \in Built :
        /\ (m.origin \in LoadOrigins /\ EndsWith(ToLowerCase(m.uri), <<".">> \o ExtPng)) =>
               m.fileData.scheme = MimePng
        /\ (m.origin \in LoadOrigins /\ ~EndsWith(ToLowerCase(m.uri), <<".">> \o ExtPng)) =>
               m.fileData.scheme = "text"
        /\ m.fileData.scheme = MimeOctet =>
               /\ m.origin = "pickFile"
               /\ ~IsSupportedPath(m.uri)

\* A .PNG loaded by _loadUri and a .txt file chosen in the open dialog have
\* both been posted
C22_Witness ==
    /\ \E m \in Posted :
           /\ m.origin = "explicit"
           /\ m.uri = PathP
           /\ m.fileData.scheme = MimePng
    /\ \E m \in Posted :
           /\ m.origin = "pickFile"
           /\ m.uri = PathT
           /\ m.fileData.scheme = MimeOctet

\* ------------------------------------------------------------------------
\* C23: for every byte sequence read for a PNG, the text the host posts is
\* data:image/png;base64, followed by characters of the base64 alphabet and
\* padding only, and the File the bridge builds from it holds exactly the
\* bytes read, with content type image/png.

Base64Text(text) ==
    \A i \in 1..Len(text) :
        \/ text[i] = Base64Pad
        \/ \E k \in 1..Len(Base64Alphabet) : Base64Alphabet[k] = text[i]

PngUrlHead == DataPrefix \o ImagePng \o Base64Marker \o <<",">>

C23_PngRoundTrip ==
    (applied.fn = "dataUrlToBlob" /\ applied.done
         /\ ExtOf(applied.input.fileName) = ExtPng) =>
        LET out == applied.output
        IN  /\ StartsWithAt(out.fileContent, PngUrlHead, 1)
            /\ Base64Text(SubSeq(out.fileContent, Len(PngUrlHead) + 1,
                                 Len(out.fileContent)))
            /\ ~out.file.null
            /\ out.file.bytes = applied.input.fileData
            /\ out.file.type = ImagePng
            /\ out.file.name = applied.input.fileName

\* Four bytes, the last group padded, whose encoding uses '+' and '/'
C23_Witness ==
    /\ applied.fn = "dataUrlToBlob"
    /\ applied.done
    /\ ExtOf(applied.input.fileName) = ExtPng
    /\ applied.input.fileData = <<137, 80, 251, 255>>
    /\ applied.output.file.bytes = <<137, 80, 251, 255>>

\* ------------------------------------------------------------------------
\* C24: _autoSyncEnabled is assigned by the constructor, from its autoSync
\* argument, and by no other step of the panel: no host event, message from
\* the webview, resumed load or dispose changes it.
C24_AutoSyncFixed ==
    [][/\ ~Constructing => autoSyncEnabled' = autoSyncEnabled
       /\ Constructing =>
              autoSyncEnabled' = IF lastEvent'.kind = "createOrShowWithCurrentFile"
                                 THEN TRUE ELSE DefaultAutoSync]_vars

\* A live panel whose text-change listener has reloaded its document
C24_Witness ==
    /\ panelState = "live"
    /\ autoSyncEnabled
    /\ webviewReady
    /\ lastEvent.kind = "textChange"
    /\ Len(posted) = 2
    /\ posted[2].origin = "textChange"

\* ------------------------------------------------------------------------
\* C25: only a `ready` message opens the gate of a panel, the gate stays
\* open for the rest of the panel's life, a later `ready` changes no field
\* of the panel, and once the gate is open no dispatch waits at it.
C25_ReadyOnce ==
    /\ [][(~webviewReady /\ webviewReady') => lastEvent'.kind = "ready"]_vars
    /\ [][(webviewReady /\ ~Constructing) => webviewReady']_vars
    /\ [][lastEvent'.kind = "readyAgain" =>
             UNCHANGED <<panelState, createdBy, autoSyncEnabled, currentDocument,
                         currentResourceUri, webviewReady, tasks, posted, nextId,
                         lastWriter>>]_vars
    /\ [](webviewReady => \A t \in Suspended : ~AtGate(t))

\* A second `ready` arrives while a load awaits its read and another has
\* been posted
C25_Witness ==
    /\ lastEvent.kind = "readyAgain"
    /\ posted # <<>>
    /\ Suspended # {}

\* ------------------------------------------------------------------------
\* C26: _getUriFromTabInput returns the first role present in the order
\* uri, modified, original, notebookUri; the resolver tests that handle
\* alone for support, so a tab whose first present role is not supported
\* gives no candidate and starts no load, whatever its other roles hold.

RoleOrder == <<"uri", "modified", "original", "notebookUri">>

PresentRoles(input) == {i \in 1..Len(RoleOrder) : input[RoleOrder[i]] # Undefined}

FirstPresentRole(input) ==
    IF PresentRoles(input) = {} THEN Undefined
    ELSE input[RoleOrder[CHOOSE i \in PresentRoles(input) :
                             \A j \in PresentRoles(input) : i <= j]]

\* The loads a handler has started are one load of uri, or none
LoadsOnly(s, uri) ==
    IF uri = Undefined THEN s.tasks = <<>>
    ELSE Len(s.tasks) = 1 /\ s.tasks[1].uri = uri

C26_TabRolePrecedence ==
    (applied.fn = "getUriFromTabInput" /\ applied.done) =>
        LET input == applied.input.input
            out == applied.output
            first == FirstPresentRole(input)
            expected == IF first # Undefined /\ IsSupportedPath(first)
                        THEN first ELSE Undefined
        IN  /\ out.uri = first
            /\ out.candidate = expected
            /\ LoadsOnly(out.sync, expected)
            /\ out.sync.notices = <<>>
            /\ LoadsOnly(out.open, expected)
            /\ out.open.notices = IF expected = Undefined THEN <<NoActiveFile>> ELSE <<>>

\* A diff tab with an unsupported modified side and a supported original side
C26_Witness ==
    /\ applied.fn = "getUriFromTabInput"
    /\ applied.done
    /\ applied.input.input = DiffTab(PathT, PathA)
    /\ applied.output.uri = PathT
    /\ applied.output.candidate = Undefined
    /\ applied.output.open.tasks = <<>>

\* ------------------------------------------------------------------------
\* C27: when neither the active editor's document nor the active tab is
\* supported, _getActiveResourceUri returns the handle of the first tab, in
\* group order and then tab order, whose handle is supported, and undefined
\* when there is none; _loadCurrentFile() loads that handle, or warns that
\* there is no active file.

TabPositions(tg) ==
    UNION {{<<g, t>> : t \in 1..Len(tg.all[g])} : g \in 1..Len(tg.all)}

Earlier(p, q) == p[1] < q[1] \/ (p[1] = q[1] /\ p[2] < q[2])

HandleAt(tg, p) == GetUriFromTabInput(tg.all[p[1]][p[2]])

SupportedPositions(tg) ==
    {p \in TabPositions(tg) :
        HandleAt(tg, p) # Undefined /\ IsSupportedPath(HandleAt(tg, p))}

FirstSupportedInOrder(tg) ==
    IF SupportedPositions(tg) = {} THEN Undefined
    ELSE HandleAt(tg, CHOOSE p \in SupportedPositions(tg) :
                          \A q \in SupportedPositions(tg) : p = q \/ Earlier(p, q))

NoSupportedFocus(editor, tg) ==
    /\ editor = Undefined \/ ~IsSupportedPath(editor)
    /\ LET active == GetUriFromTabInput(ActiveTabInput(tg))
       IN  active = Undefined \/ ~IsSupportedPath(active)

C27_ScanInTabOrder ==
    (/\ applied.fn = "getActiveResourceUri"
     /\ applied.done
     /\ NoSupportedFocus(applied.input.editor, applied.input.tabs)) =>
        LET expected == FirstSupportedInOrder(applied.input.tabs)
            out == applied.output
        IN  /\ out.candidate = expected
            /\ LoadsOnly(out.open, expected)
            /\ out.open.notices = IF expected = Undefined THEN <<NoActiveFile>> ELSE <<>>

\* The second tab of the first group is found before the first tab of the
\* second group
C27_Witness ==
    /\ applied.fn = "getActiveResourceUri"
    /\ applied.done
    /\ applied.input.editor = Undefined
    /\ applied.input.tabs =
           [all |-> << <<DirectTab(PathT), DirectTab(PathP)>>, <<DirectTab(PathA)>> >>,
            group |-> 1, tab |-> 1]
    /\ applied.output.candidate = PathP
    /\ applied.output.open.tasks[1].uri = PathP

\* ------------------------------------------------------------------------
\* Host calls return and the viewer reports that it is ready: every call of
\* showOpenDialog, openTextDocument and readFile that a handler awaits
\* resolves or rejects, and the bridge of a live panel posts `ready` when
\* the viewer's document has loaded.

\* The host call awaited by load k returns: the read or open rejects or
\* resolves, the dialog is closed
IoReturns(k) ==
    \E i \in 1..Len(tasks) :
        /\ tasks[i].id = k
        /\ \/ ReadFails(i)
           \/ ReadReturns(i)
           \/ \E fileUris \in PickLists : DialogReturns(i, fileUris)

FirstReady == ~webviewReady /\ Ready

FairSpec ==
    /\ Spec
    /\ WF_vars(FirstReady)
    /\ \A k \in 1..MaxLoads : WF_vars(IoReturns(k))

\* ------------------------------------------------------------------------
\* C28: a load handler is suspended only at the ready gate, at a host read
\* or open, or at the open dialog; if host calls return and the viewer of a
\* live panel sends `ready`, every load in flight ends, unless its panel was
\* disposed before `ready` came and it waits at that gate; on a live panel a
\* load ends by posting its loadFile, by a failed read or by a cancelled
\* dialog; and a load waiting at the gate stays there, with nothing posted,
\* through every step that is not a `ready`.

AwaitPoints == {"gate", "openDoc", "readFile", "docRead", "pickRead", "dialog"}

InFlight(k) == \E t \in Suspended : t.id = k

\* Load k waits for the `ready` of a panel disposed before its viewer was ready
Stranded(k) ==
    /\ panelState = "disposed"
    /\ ~webviewReady
    /\ \E t \in Suspended : t.id = k /\ AtGate(t)

C28_LoadsComplete ==
    /\ [](\A t \in Suspended : t.pc \in AwaitPoints)
    /\ \A k \in 1..MaxLoads : InFlight(k) ~> (~InFlight(k) \/ Stranded(k))
    /\ [][\A t \in Suspended :
             (panelState' = "live" /\ ~Constructing /\ ~InFlight(t.id)') =>
                 \/ \E i \in 1..Len(posted') : posted'[i].id = t.id
                 \/ lastEvent'.kind = "fail"
                 \/ t.pc = "dialog"]_vars
    /\ [][\A t \in Suspended :
             (AtGate(t) /\ lastEvent'.kind # "ready" /\ ~Constructing) =>
                 /\ t \in Suspended'
                 /\ posted' = posted]_vars

\* Two loads are in flight on a live panel whose viewer is not ready: one
\* waits at the gate, one for its read
C28_Witness ==
    /\ panelState = "live"
    /\ ~webviewReady
    /\ \E t \in Suspended : AtGate(t)
    /\ \E t \in Suspended : t.pc = "readFile"

\* ------------------------------------------------------------------------
\* C29 as claimed: when createOrShowWithCurrentFile creates a panel while a
\* supported document is focused, and no other resource is asked for, one
\* load of that document is started, so that one loadFile is posted for it
\* when `ready` arrives.

\* The loads that a step leaves suspended for a handle
LoadsStartedFor(uri) == {t \in Suspended' : t.uri = uri}

C29_OneLoadOnCreation ==
    [][(/\ OpenCreatesPanel
        /\ activeTextEditor # Undefined
        /\ IsSupportedFile(activeTextEditor)
        /\ lastEvent'.arg \in {Undefined, activeTextEditor}) =>
           Cardinality(LoadsStartedFor(activeTextEditor)) = 1]_vars

\* ------------------------------------------------------------------------
\* C30 as claimed: while a panel is disposed no loadFile is posted to its
\* webview and _currentResourceUri is not written, whatever handlers were in
\* flight when dispose ran.
C30_NothingAfterDispose ==
    [][(panelState = "disposed" /\ panelState' = "disposed") =>
           /\ posted' = posted
           /\ currentResourceUri' = currentResourceUri
           /\ lastWriter' = lastWriter]_vars

\* ------------------------------------------------------------------------
\* C31 as claimed: _currentResourceUri is the uri of _currentDocument whenever
\* a document is held, and no document is held exactly when nothing has been
\* loaded or the file loaded last is a binary one, read from storage.

\* The handle names a file that the load paths read from storage as bytes
BinaryHandle(uri) == ~IsTextExt(ExtOf(FileNameOf(uri)))

C31_DocumentUndefinedIffBinary ==
    /\ currentDocument # Undefined => currentResourceUri = currentDocument
    /\ currentDocument = Undefined <=>
           (currentResourceUri = Undefined \/ BinaryHandle(currentResourceUri))

\* The step resumes the _loadUri at position i, whose readFile has returned
LoadUriResumed(i) ==
    /\ lastEvent'.kind = "resume"
    /\ tasks[i].pc = "readFile"
    /\ lastWriter' = tasks[i].id

\* C31 as amended: _currentResourceUri is the uri of _currentDocument
\* whenever a document is held; no document is held exactly when no load has
\* written the two fields since the panel was constructed
\* (_currentResourceUri is undefined too) or the write made last is that of
\* _loadUri after its readFile, which leaves the handle of a binary file in
\* _currentResourceUri; every other write is made by _loadDocument and leaves
\* the document held, also when the document is a PNG that _loadDocument
\* reads from storage.
C31_DocumentTracksWriter ==
    /\ [](currentDocument # Undefined => currentResourceUri = currentDocument)
    /\ [](lastWriter = 0 <=> currentResourceUri = Undefined)
    /\ []((currentDocument = Undefined /\ currentResourceUri # Undefined) =>
              BinaryHandle(currentResourceUri))
    /\ [][\A i \in 1..Len(tasks) :
             LoadUriResumed(i) =>
                 /\ currentDocument' = Undefined
                 /\ currentResourceUri' = tasks[i].uri]_vars
    /\ [][(currentDocument # Undefined /\ currentDocument' = Undefined) =>
             \/ Constructing
             \/ \E i \in 1..Len(tasks) : LoadUriResumed(i)]_vars
    /\ [][(/\ lastWriter' # lastWriter
           /\ ~Constructing
           /\ ~\E i \in 1..Len(tasks) : LoadUriResumed(i)) =>
              /\ currentDocument' # Undefined
              /\ lastWriter' \notin {t.id : t \in {u \in Suspended : u.pc = "readFile"}}]_vars

\* A PNG focused in a text editor has been read from storage and posted as a
\* data url, and the panel holds its document
C31_Witness ==
    /\ currentDocument = PathP
    /\ currentResourceUri = PathP
    /\ \E m \in Posted :
           /\ m.uri = PathP
           /\ m.origin = "editor"
           /\ m.fileData = DataUrl(MimePng, ReadFile(PathP))
           /\ lastWriter = m.id

\* ------------------------------------------------------------------------
\* C32: _currentResourceUri is undefined or a handle with one of the
\* supported extensions, and from the moment a load has set it it stays
\* defined until a new panel is constructed, whatever the panel handles
\* (focus on an unsupported file, a failed read, an error of the viewer,
\* dispose).
C32_DisplayedSupportedAndKept ==
    /\ [](currentResourceUri = Undefined \/ IsSupportedPath(currentResourceUri))
    /\ [](currentDocument = Undefined \/ IsSupportedFile(currentDocument))
    /\ [][(currentResourceUri # Undefined /\ ~Constructing) =>
              currentResourceUri' # Undefined]_vars

\* /a.json is displayed and the editor's focus has moved to a file that is
\* not supported
C32_Witness ==
    /\ panelState = "live"
    /\ currentResourceUri = PathA
    /\ activeTextEditor = PathT
    /\ lastEvent.kind = "editor"

\* ------------------------------------------------------------------------
\* C33: there is never more than one open panel; currentPanel is defined
\* exactly when there is one; a command creates a panel only when
\* currentPanel is undefined, and reveals the panel, creating none, when it is
\* defined; dispose clears currentPanel and leaves no panel open; an event
\* of the host that arrives while the panel is disposed runs none of its
\* listeners, whatever is focused.

CommandEvents == {"createOrShow", "createOrShowWithCurrentFile", "reveal", "open"}
HostEvents == {"editor", "tabs", "tabGroups", "textChange"}

\* ThorVGViewerPanel.currentPanel is defined
CurrentPanelDefined == panelState = "live"

C33_OnePanel ==
    /\ [](openPanels <= 1)
    /\ [](CurrentPanelDefined <=> openPanels = 1)
    /\ [][openPanels' > openPanels <=> Constructing]_vars
    /\ [][Constructing => (~CurrentPanelDefined /\ CurrentPanelDefined')]_vars
    /\ [][(CurrentPanelDefined /\ lastEvent'.kind \in CommandEvents) =>
             /\ lastEvent'.kind \in {"reveal", "open"}
             /\ openPanels' = openPanels
             /\ CurrentPanelDefined'
             /\ webviewReady' = webviewReady
             /\ autoSyncEnabled' = autoSyncEnabled]_vars
    /\ [][lastEvent'.kind = "dispose" =>
             /\ CurrentPanelDefined
             /\ ~CurrentPanelDefined'
             /\ openPanels' = 0]_vars
    /\ [][(panelState = "disposed" /\ lastEvent'.kind \in HostEvents) =>
             UNCHANGED <<panelState, currentDocument, currentResourceUri, tasks,
                         posted, nextId, lastWriter, openPanels>>]_vars

\* The panel is disposed, auto-sync was on, and the editor's focus has
\* since moved to /a.json, which the panel did not display
C33_Witness ==
    /\ panelState = "disposed"
    /\ openPanels = 0
    /\ autoSyncEnabled
    /\ lastEvent.kind = "editor"
    /\ activeTextEditor = PathA
    /\ currentResourceUri # PathA

\* ------------------------------------------------------------------------
\* Export: case 'exportFile', from the message to the file written

\* String.prototype.toUpperCase
ToUpperChar(c) ==
    IF \E i \in 1..Len(LowerCase) : LowerCase[i] = c
    THEN UpperCase[CHOOSE i \in 1..Len(LowerCase) : LowerCase[i] = c]
    ELSE c

ToUpperCase(s) == [i \in 1..Len(s) |-> ToUpperChar(s[i])]

\* message.fileData: a string, a Uint8Array, or a value of another type
StringData(text) == [type |-> "string", text |-> text, bytes |-> <<>>]
Uint8ArrayData(bytes) == [type |-> "Uint8Array", text |-> <<>>, bytes |-> bytes]
OtherData == [type |-> "other", text |-> <<>>, bytes |-> <<>>]

ImageGif == <<"i", "m", "a", "g", "e", "/", "g", "i", "f">>

\* The bytes of an exported image
ExportBytes == {<<>>, <<137, 80>>, <<71, 73, 70, 56>>}

\* The data of the exportFile messages followed: the data urls the bridge
\* sends (canvas.toDataURL, FileReader.readAsDataURL), and what else the
\* handler has a branch for: base64 without prefix, a data url without
\* comma, a Uint8Array, another value
ExportData ==
    {StringData(DataUrlString(mime, b)) :
        mime \in {ImagePng, ImageGif}, b \in ExportBytes}
        \cup {StringData(ToBase64(<<137, 80>>)),
              StringData(DataPrefix \o ImagePng \o Base64Marker),
              Uint8ArrayData(<<137, 80>>), OtherData}

\* An exportFile message
ExportMessage(fileName, fileType, fileData) ==
    [command |-> "exportFile", fileName |-> fileName, fileType |-> fileType,
     fileData |-> fileData]

\* The exportFile messages followed: those the bridge builds from the name of
\* the file the viewer shows, and one without a file name
ExportMessages ==
    {ExportMessage(BridgeExportName(f, t), t, d) :
        f \in {Undefined, FileNameOf(PathA), FileNameOf(PathP)}, t \in FileTypes,
        d \in ExportData}
    \cup {ExportMessage(Undefined, t, d) : t \in FileTypes, d \in ExportData}

\* Buffer.from(text, 'base64'): decoding ends at the first '=', characters
\* outside the alphabet are skipped ('-' and '_' stand for '+' and '/'), and
\* a last character that completes no byte is dropped.
BufferFromBase64(text) ==
    LET pads == {i \in 1..Len(text) : text[i] = Base64Pad}
        upTo == IF pads = {} THEN text
                ELSE SubSeq(text, 1, (CHOOSE i \in pads : \A j \in pads : i <= j) - 1)
        plain == [i \in 1..Len(upTo) |->
                     IF upTo[i] = "-" THEN "+"
                     ELSE IF upTo[i] = "_" THEN "/" ELSE upTo[i]]
        InAlphabet(c) == \E k \in 1..Len(Base64Alphabet) : Base64Alphabet[k] = c
        chars == SelectSeq(plain, InAlphabet)
    IN  SextetsToBytes(IF Len(chars) % 4 = 1
                       THEN SubSeq(chars, 1, Len(chars) - 1) ELSE chars)

\* error.message of the exceptions of the try block
InvalidArgType == "The first argument must be of type string or an instance of Buffer, ArrayBuffer, or Array or an Array-like Object. Received undefined"
UnsupportedFormat == "Unsupported file data format"

\* What vscode.workspace.fs.writeFile rejects with
WriteErrors == {"EACCES: permission denied", "ENOSPC: no space left on device"}

Buffer(bytes) == [thrown |-> FALSE, message |-> "", bytes |-> bytes]
ThrownError(message) == [thrown |-> TRUE, message |-> message, bytes |-> <<>>]

\* Mutant: data that cannot be decoded gives an empty buffer
ExportBuffer_NeverThrows(fileData) ==
    IF fileData.type = "Uint8Array" THEN Buffer(fileData.bytes)
    ELSE IF fileData.type = "string" /\ ~StartsWithAt(fileData.text, DataPrefix, 1)
    THEN Buffer(BufferFromBase64(fileData.text))
    ELSE IF fileData.type = "string" /\ Len(Split(fileData.text, ",")) >= 2
    THEN Buffer(BufferFromBase64(Split(fileData.text, ",")[2]))
    ELSE Buffer(<<>>)

\* The try block of case 'exportFile', up to writeFile: the buffer, or the
\* exception thrown (Buffer.from(undefined, 'base64') when the data url
\* holds no comma)
ExportBuffer(fileData) ==
    IF fileData.type = "string"
    THEN IF StartsWithAt(fileData.text, DataPrefix, 1)
         THEN LET parts == Split(fileData.text, ",")
              IN  IF Len(parts) >= 2 THEN Buffer(BufferFromBase64(parts[2]))
                  ELSE ThrownError(InvalidArgType)
         ELSE Buffer(BufferFromBase64(fileData.text))
    ELSE IF fileData.type = "Uint8Array" THEN Buffer(fileData.bytes)
    ELSE ThrownError(UnsupportedFormat)

\* showInformationMessage(`${fileTypeUpper} exported successfully: ${saveUri.fsPath}`)
Exported(fileTypeUpper, fsPath) ==
    [level |-> "information", text |-> "exported successfully",
     fileType |-> fileTypeUpper, fsPath |-> fsPath]

\* showErrorMessage(`Failed to export ${fileTypeUpper}: ${errorMsg}`)
ExportFailed(fileTypeUpper, errorMsg) ==
    [level |-> "error", text |-> "Failed to export", fileType |-> fileTypeUpper,
     errorMsg |-> errorMsg]

UnchangedByExport ==
    UNCHANGED <<panelState, createdBy, autoSyncEnabled, currentDocument,
                currentResourceUri, webviewReady, tasks, posted, nextId,
                lastWriter, activeTextEditor, tabGroups, docText,
                workspaceFolders, applied, openPanels, filesList,
                windowFilename, loaded, toHost, createObjectURL, anchorClick,
                gifExports, nextExport>>

\* case 'exportFile', to the await of showSaveDialog.  One export is followed
\* at a time: the handlers of two exports share no state.
ExportFile(message) ==
    /\ panelState = "live"
    /\ webviewReady
    /\ saveDialog = Undefined
    /\ fileWrite = Undefined
    /\ lastEvent' = Event("exportFile", message)
    /\ notices' = <<>>
    /\ writtenFiles' = <<>>
    /\ saveDialog' = [defaultUri |-> ExportDefaultUri(currentDocument,
                                                      workspaceFolders, message),
                      fileType |-> message.fileType,
                      fileData |-> message.fileData]
    /\ UNCHANGED fileWrite
    /\ UnchangedByExport

\* showSaveDialog returns undefined: the export is dropped
SaveDialogCancelled ==
    /\ saveDialog # Undefined
    /\ lastEvent' = Event("saveCancelled", lastEvent.arg)
    /\ notices' = <<>>
    /\ saveDialog' = Undefined
    /\ UNCHANGED <<fileWrite, writtenFiles>>
    /\ UnchangedByExport

\* What the user may choose in the save dialog besides the default
OtherSaveUri == <<"/", "o", "u", "t">>

\* showSaveDialog returns a uri: the data is decoded, and the handler awaits
\* writeFile, or shows the exception that decoding has thrown
SaveDialogReturns(saveUri) ==
    /\ saveDialog # Undefined
    /\ saveDialog' = Undefined
    /\ UNCHANGED writtenFiles
    /\ UnchangedByExport
    /\ LET buffer == ExportBuffer(saveDialog.fileData)
           fileTypeUpper == ToUpperCase(saveDialog.fileType)
       IN  IF buffer.thrown
           THEN /\ lastEvent' = Event("decodeFailed", lastEvent.arg)
                /\ notices' = <<ExportFailed(fileTypeUpper, buffer.message)>>
                /\ UNCHANGED fileWrite
           ELSE /\ lastEvent' = Event("writing", lastEvent.arg)
                /\ notices' = <<>>
                /\ fileWrite' = [uri |-> saveUri, buffer |-> buffer.bytes,
                                 fileTypeUpper |-> fileTypeUpper]

\* writeFile returns: the success is shown
WriteReturns ==
    /\ fileWrite # Undefined
    /\ lastEvent' = Event("written", lastEvent.arg)
    /\ writtenFiles' = Append(writtenFiles, [uri |-> fileWrite.uri,
                                             content |-> fileWrite.buffer])
    /\ notices' = <<Exported(fileWrite.fileTypeUpper, fileWrite.uri)>>
    /\ fileWrite' = Undefined
    /\ UNCHANGED saveDialog
    /\ UnchangedByExport

\* writeFile rejects: the catch block shows the error's message
WriteFails(error) ==
    /\ fileWrite # Undefined
    /\ lastEvent' = Event("writeFailed", lastEvent.arg)
    /\ notices' = <<ExportFailed(fileWrite.fileTypeUpper, error)>>
    /\ fileWrite' = Undefined
    /\ UNCHANGED <<saveDialog, writtenFiles>>
    /\ UnchangedByExport

ExportNext ==
    \/ \E m \in ExportMessages : ExportFile(m)
    \/ SaveDialogCancelled
    \/ /\ saveDialog # Undefined
       /\ \E saveUri \in {saveDialog.defaultUri, OtherSaveUri} :
              SaveDialogReturns(saveUri)
    \/ WriteReturns
    \/ \E error \in WriteErrors : WriteFails(error)

ExportSpec == ExportInit /\ [][ExportNext]_vars

\* ------------------------------------------------------------------------
\* C34: no step of an exportFile handler changes _currentResourceUri or
\* _currentDocument or posts a loadFile; when the save dialog is cancelled
\* nothing is written and no notice is shown; when the data cannot be
\* decoded, or writeFile rejects, one error notice with the message of the
\* exception is shown and nothing is written; when writeFile returns, one
\* file has been written, at the uri chosen, and one success notice is shown.

\* The try block throws on this data before it reaches writeFile
Undecodable(fileData) ==
    \/ fileData.type \notin {"string", "Uint8Array"}
    \/ /\ fileData.type = "string"
       /\ StartsWithAt(fileData.text, DataPrefix, 1)
       /\ \A i \in 1..Len(fileData.text) : fileData.text[i] # ","

\* The step on which showSaveDialog returns a uri
SaveUriChosen == saveDialog # Undefined /\ lastEvent'.kind \in {"decodeFailed", "writing"}

C34_ExportOutcomes ==
    /\ [][UNCHANGED <<currentDocument, currentResourceUri, posted, tasks>>]_vars
    /\ [](Len(notices) <= 1 /\ Len(writtenFiles) <= 1)
    /\ [][lastEvent'.kind = "saveCancelled" =>
             /\ notices' = <<>>
             /\ writtenFiles' = <<>>
             /\ fileWrite' = Undefined
             /\ saveDialog' = Undefined]_vars
    /\ [][(SaveUriChosen /\ Undecodable(saveDialog.fileData)) =>
             /\ notices' =
                    <<ExportFailed(ToUpperCase(saveDialog.fileType),
                                   IF saveDialog.fileData.type = "string"
                                   THEN InvalidArgType ELSE UnsupportedFormat)>>
             /\ writtenFiles' = <<>>
             /\ fileWrite' = Undefined]_vars
    /\ [][(SaveUriChosen /\ ~Undecodable(saveDialog.fileData)) =>
             /\ notices' = <<>>
             /\ writtenFiles' = <<>>
             /\ fileWrite' # Undefined]_vars
    /\ [][lastEvent'.kind = "writeFailed" =>
             /\ \E error \in WriteErrors :
                    notices' = <<ExportFailed(ToUpperCase(Requested.fileType), error)>>
             /\ writtenFiles' = <<>>
             /\ fileWrite' = Undefined]_vars
    /\ [][lastEvent'.kind = "written" =>
             /\ Len(writtenFiles') = 1
             /\ writtenFiles'[1].uri = fileWrite.uri
             /\ notices' = <<Exported(ToUpperCase(Requested.fileType), fileWrite.uri)>>
             /\ fileWrite' = Undefined]_vars

\* The gif sent as a data url has been written, with its four bytes, at the
\* uri chosen in the dialog, and the success is shown
C34_Witness ==
    /\ lastEvent.kind = "written"
    /\ Requested.fileData = StringData(DataUrlString(ImageGif, <<71, 73, 70, 56>>))
    /\ writtenFiles = <<[uri |-> OtherSaveUri, content |-> <<71, 73, 70, 56>>]>>
    /\ notices = <<Exported(<<"G", "I", "F">>, OtherSaveUri)>>
    /\ currentResourceUri = PathP

\* ------------------------------------------------------------------------
\* C35: when, on a live panel, the read of the k-th file of a pickFile
\* selection fails, the files before it are the ones posted for the request,
\* in order, nothing is posted on that step or later for the request, whose
\* handler is gone, no notice is shown, and _currentResourceUri and
\* _currentDocument are unchanged.

\* The position in its selection of the file a pickFile handler is reading
ReadingIndex(t) == Len(t.picked) - Len(t.rest) + 1

C35_PickReadFailure ==
    /\ [][\A i \in 1..Len(tasks) :
             (ReadFailed(i) /\ tasks[i].pc = "pickRead" /\ panelState = "live") =>
                 /\ UrisPostedFor(posted, tasks[i].id) =
                        SubSeq(tasks[i].picked, 1, ReadingIndex(tasks[i]) - 1)
                 /\ posted' = posted
                 /\ \A t \in Suspended' : t.id # tasks[i].id
                 /\ notices' = <<>>
                 /\ currentResourceUri' = currentResourceUri
                 /\ currentDocument' = currentDocument]_vars
    /\ [][\A j \in 1..Len(posted') :
             (j > Len(posted) /\ posted'[j].origin = "pickFile") =>
                 \E t \in Suspended :
                     /\ t.id = posted'[j].id
                     /\ t.pc \in {"pickRead", "gate"}
                     /\ posted'[j].uri = Head(t.rest)]_vars

\* Of the selection p.PNG, a.json the first file has been posted and the
\* read of the second has failed
C35_Witness ==
    /\ panelState = "live"
    /\ lastEvent.kind = "fail"
    /\ \E m \in Posted :
           /\ m.origin = "pickFile"
           /\ m.picked = <<PathP, PathA>>
           /\ UrisPostedFor(posted, m.id) = <<PathP>>
           /\ \A t \in Suspended : t.id # m.id

\* ------------------------------------------------------------------------
\* The webview: the bridge's loadFile handler, file selector and files list

\* JSON.parse(text) for the texts followed, which hold white space, digits
\* 1 to 9, strings without escapes, arrays, and objects without members.  A
\* value is kept as its text without white space.
JsonWs == {" ", "\t", "\n", "\r"}
JsonDigits == {"1", "2", "3", "4", "5", "6", "7", "8", "9"}

\* The first position from i on that holds no white space
SkipWs(text, i) ==
    LET at == {j \in i..Len(text) : text[j] \notin JsonWs}
    IN  IF at = {} THEN Len(text) + 1
        ELSE CHOOSE j \in at : \A k \in at : j <= k

SyntaxError == [ok |-> FALSE, next |-> 0, value |-> <<>>]
Parsed(value, next) == [ok |-> TRUE, next |-> next, value |-> value]

RECURSIVE ParseValue(_, _), ParseElements(_, _, _)

\* The value that begins at or after position i
ParseValue(text, i) ==
    LET j == SkipWs(text, i)
    IN  IF j > Len(text) THEN SyntaxError
        ELSE IF text[j] \in JsonDigits
        THEN LET k == CHOOSE k \in (j + 1)..(Len(text) + 1) :
                          /\ \A m \in j..(k - 1) : text[m] \in JsonDigits
                          /\ k <= Len(text) => text[k] \notin JsonDigits
             IN  Parsed(SubSeq(text, j, k - 1), k)
        ELSE IF text[j] = "\""
        THEN LET quotes == {k \in (j + 1)..Len(text) : text[k] = "\""}
                 close == CHOOSE k \in quotes : \A m \in quotes : k <= m
             IN  IF quotes = {} THEN SyntaxError
                 ELSE Parsed(SubSeq(text, j, close), close + 1)
        ELSE IF text[j] = "["
        THEN LET k == SkipWs(text, j + 1)
             IN  IF k <= Len(text) /\ text[k] = "]"
                 THEN Parsed(<<"[", "]">>, k + 1)
                 ELSE ParseElements(text, j + 1, <<"[">>)
        ELSE IF text[j] = "{"
        THEN LET k == SkipWs(text, j + 1)
             IN  IF k <= Len(text) /\ text[k] = "}"
                 THEN Parsed(<<"{", "}">>, k + 1)
                 ELSE SyntaxError
        ELSE SyntaxError

\* The elements of an array from position i on, after those of acc
ParseElements(text, i, acc) ==
    LET v == ParseValue(text, i)
        k == SkipWs(text, v.next)
    IN  IF ~v.ok \/ k > Len(text) THEN SyntaxError
        ELSE IF text[k] = "," THEN ParseElements(text, k + 1, acc \o v.value \o <<",">>)
        ELSE IF text[k] = "]" THEN Parsed(acc \o v.value \o <<"]">>, k + 1)
        ELSE SyntaxError

JsonParse(text) ==
    LET v == ParseValue(text, 1)
    IN  IF v.ok /\ SkipWs(text, v.next) > Len(text) THEN v ELSE SyntaxError

\* typeof data === 'string' ? data : JSON.stringify(data), for a parsed value
TextOfValue(value) ==
    IF Head(value) = "\"" THEN SubSeq(value, 2, Len(value) - 1) ELSE value

IsLottieName(fileName) == ExtOf(fileName) \in {ExtJson, ExtLot}

\* Mutant: a text that does not parse is passed on as it is
FileForViewer_KeepsText(fileName, fileData) ==
    IF IsLottieName(fileName) /\ JsonParse(fileData).ok
    THEN CreateFileFromData(fileName, TextOfValue(JsonParse(fileData).value),
                            ExtOf(fileName))
    ELSE CreateFileFromData(fileName, fileData, ExtOf(fileName))

\* processFileData(fileName, fileData) for a string fileData, up to the call
\* of addFileObjectToViewer: fileForViewer, or null when the function has
\* returned before
FileForViewer(fileName, fileData) ==
    IF IsLottieName(fileName)
    THEN LET processedData == JsonParse(fileData)
         IN  IF processedData.ok
             THEN CreateFileFromData(fileName, TextOfValue(processedData.value),
                                     ExtOf(fileName))
             ELSE NullFile
    ELSE ProcessFileData(fileName, fileData)

\* ensureFilesList(): what is not an array is replaced by an empty array
EnsureFilesList(list) == IF list = Undefined THEN <<>> ELSE list

\* Mutant: the new file is appended and no entry is removed
AddFileObjectToViewer_NoReplace(b, file, viewer) ==
    IF file.null \/ file.name = <<>> \/ file.name \notin viewer.allowed THEN b
    ELSE [filesList |-> Append(EnsureFilesList(b.filesList), file),
          loaded |-> IF viewer.loader = "none" THEN b.loaded ELSE file]

\* addFileObjectToViewer(file) on the list and the loaded file of b.  The
\* viewer says which names window.allowedFileExtension accepts and whether
\* window.loadFile, else window.loadData, is a function.
AddFileObjectToViewer(b, file, viewer) ==
    IF file.null \/ file.name = <<>> THEN b
    ELSE IF file.name \notin viewer.allowed THEN b
    ELSE LET list == EnsureFilesList(b.filesList)
             same == {i \in 1..Len(list) : list[i].name = file.name}
             existingIndex == CHOOSE i \in same : \A j \in same : i <= j
         IN  [filesList |-> Append(IF same # {} THEN RemoveAt(list, existingIndex)
                                   ELSE list, file),
              loaded |-> IF viewer.loader = "none" THEN b.loaded ELSE file]

RECURSIVE HandleFileInput(_, _, _)
\* handleFileInput(event): each of the files, in order
HandleFileInput(b, files, viewer) ==
    IF files = <<>> THEN b
    ELSE HandleFileInput(AddFileObjectToViewer(b, Head(files), viewer),
                         Tail(files), viewer)

\* The texts of the json and lot files followed
JsonTexts ==
    {<<"[", "1", "]">>, <<" ", "{", "}", " ">>, <<"\"", "a", "\"">>,
     <<"{">>, <<"[", "1", ",", "]">>, <<"[", "1", "]", "1">>, <<>>}

LotName == <<"b", ".", "l", "o", "t">>

\* The loadFile messages followed: a json file with each of the texts, a
\* lot file with two of them, a PNG and a file of another type as the host
\* encodes them
LoadFileReceived(fileName, fileData) ==
    [command |-> "loadFile", fileName |-> fileName, fileData |-> fileData]

LoadFileMessages ==
    {LoadFileReceived(Basename(PathA), d) : d \in JsonTexts}
    \cup {LoadFileReceived(LotName, d) :
              d \in {<<"[", "1", "]">>, <<"[", "1", ",", "]">>}}
    \cup {LoadFileReceived(n, EncodeBinary(n, <<137, 80>>)) : n \in BinaryNames}

\* A File of the file selector
SelectedFile(name, bytes) ==
    [null |-> FALSE, name |-> name, type |-> <<>>, bytes |-> bytes]

\* The selections of the file selector followed
FileSelections ==
    {<<SelectedFile(Basename(PathA), <<1>>)>>,
     <<SelectedFile(Basename(PathP), <<137, 80>>),
       SelectedFile(Basename(PathA), <<1>>)>>}

BridgeNames == {Basename(PathA), LotName, Basename(PathP), Basename(PathT)}

\* What the viewer's main.js gives the bridge: the names accepted by
\* window.allowedFileExtension (all of them when it is no function), and the
\* loader that is a function
Viewer(allowed, loader) == [allowed |-> allowed, loader |-> loader]

Viewers ==
    {Viewer(BridgeNames, l) : l \in {"loadFile", "loadData", "none"}}
    \cup {Viewer(BridgeNames \ {Basename(PathT)}, "loadFile")}

UnchangedByBridge ==
    UNCHANGED <<panelState, createdBy, autoSyncEnabled, currentDocument,
                currentResourceUri, webviewReady, tasks, posted, nextId,
                lastWriter, activeTextEditor, tabGroups, docText, notices,
                workspaceFolders, saveDialog, applied, openPanels, fileWrite,
                writtenFiles>>

UnchangedByLoad ==
    UNCHANGED <<createObjectURL, anchorClick, gifExports, nextExport>>

\* fileForViewer of each of the messages
FilesForViewer ==
    [m \in LoadFileMessages |-> FileForViewer(m.fileName, m.fileData)]

\* The message listener, case 'loadFile': processFileData
ReceiveLoadFile(message, viewer) ==
    \E b \in {AddFileObjectToViewer([filesList |-> filesList, loaded |-> loaded],
                                    FilesForViewer[message], viewer)} :
        /\ lastEvent' = Event("loadFile", message)
        /\ windowFilename' = message.fileName
        /\ filesList' = b.filesList
        /\ loaded' = b.loaded
        /\ toHost' = <<>>
        /\ UnchangedByLoad
        /\ UnchangedByBridge

\* The file selector's change event: handleFileInput
FileInputChange(files, viewer) ==
    \E b \in {HandleFileInput([filesList |-> filesList, loaded |-> loaded],
                              files, viewer)} :
        /\ lastEvent' = Event("fileInput", files)
        /\ filesList' = b.filesList
        /\ loaded' = b.loaded
        /\ toHost' = <<>>
        /\ UNCHANGED windowFilename
        /\ UnchangedByLoad
        /\ UnchangedByBridge

\* vscode.postMessage({ command: 'loadError', ... })
LoadErrorMessage == [command |-> "loadError"]

\* The player's error event, or player.load rejects: loadError is posted
PlayerFails ==
    /\ ~loaded.null
    /\ lastEvent' = Event("playerError", loaded.name)
    /\ toHost' = <<LoadErrorMessage>>
    /\ UNCHANGED <<filesList, windowFilename, loaded>>
    /\ UnchangedByLoad
    /\ UnchangedByBridge

BridgeInit ==
    /\ panelState = "live"
    /\ createdBy = "createOrShow"
    /\ autoSyncEnabled = FALSE
    /\ currentDocument = Undefined
    /\ currentResourceUri = Undefined
    /\ webviewReady = TRUE
    /\ tasks = <<>>
    /\ posted = <<>>
    /\ nextId = 1
    /\ lastWriter = 0
    /\ activeTextEditor = Undefined
    /\ tabGroups = NoTabs
    /\ docText = [h \in TextDocuments |-> SavedText]
    /\ lastEvent = Event("ready", Undefined)
    /\ notices = <<>>
    /\ workspaceFolders = <<>>
    /\ saveDialog = Undefined
    /\ applied = NoCall
    /\ openPanels = 1
    /\ fileWrite = Undefined
    /\ writtenFiles = <<>>
    /\ BridgeIdle

BridgeNext ==
    \/ \E m \in LoadFileMessages, v \in Viewers : ReceiveLoadFile(m, v)
    \/ \E files \in FileSelections, v \in Viewers : FileInputChange(files, v)
    \/ PlayerFails

BridgeSpec == BridgeInit /\ [][BridgeNext]_vars

\* ------------------------------------------------------------------------
\* C36: a loadFile message for a json or lot file whose text JSON.parse
\* rejects leaves window.filesList and the loaded file as they are, and its
\* handler posts no message to the host.

\* The text of the message is no JSON
Unparseable(message) ==
    IsLottieName(message.fileName) /\ ~JsonParse(message.fileData).ok

C36_UnparseableDropped ==
    [][(lastEvent'.kind = "loadFile" /\ Unparseable(lastEvent'.arg)) =>
           /\ filesList' = filesList
           /\ loaded' = loaded
           /\ toHost' = <<>>]_vars

\* After a.json was loaded and listed, b.lot has arrived with the text [1,]
C36_Witness ==
    /\ lastEvent = Event("loadFile", LoadFileReceived(LotName, <<"[", "1", ",", "]">>))
    /\ Len(filesList) = 1
    /\ filesList[1].name = Basename(PathA)
    /\ loaded = filesList[1]
    /\ windowFilename = LotName

\* ------------------------------------------------------------------------
\* C38: window.filesList, empty at first, never holds two entries of one
\* name, and every step that adds files leaves the list as it is for a file
\* that is not accepted and else removes the entries of the file's name and
\* appends the file, so that a file just added is the last entry.

\* The list without the entries of this name, followed by the file
Replaced(list, file) ==
    Append(SelectSeq(list, LAMBDA f : f.name # file.name), file)

RECURSIVE ListsAfter(_, _)
\* The lists that adding these files in order may leave, each file being
\* accepted or not
ListsAfter(list, files) ==
    IF files = <<>> THEN {list}
    ELSE UNION {ListsAfter(l, Tail(files)) :
                    l \in {list} \cup IF Head(files).null THEN {}
                                      ELSE {Replaced(list, Head(files))}}

C38_OneEntryPerName ==
    /\ [](\A i, j \in 1..Len(filesList) :
              filesList[i].name = filesList[j].name => i = j)
    /\ [][/\ lastEvent'.kind = "loadFile" =>
                 filesList' \in ListsAfter(filesList, <<FilesForViewer[lastEvent'.arg]>>)
          /\ lastEvent'.kind = "fileInput" =>
                 filesList' \in ListsAfter(filesList, lastEvent'.arg)
          /\ lastEvent'.kind = "playerError" => filesList' = filesList]_vars

\* The list held a.json before p.PNG; a.json has arrived again with another
\* text and is now the last entry
C38_Witness ==
    /\ lastEvent = Event("loadFile",
                         LoadFileReceived(Basename(PathA), <<" ", "{", "}", " ">>))
    /\ Len(filesList) = 2
    /\ filesList[1].name = Basename(PathP)
    /\ filesList[2] = [null |-> FALSE, name |-> Basename(PathA),
                       type |-> ApplicationJson, bytes |-> Utf8(<<"{", "}">>)]
    /\ loaded = filesList[2]

\* ------------------------------------------------------------------------
\* The webview: the click handler of the export-gif button

\* Clicks of the button followed
MaxExports == 3

\* The function a click handler puts in the place of original: a closure of
\* that handler that calls original
Override(id, original) == <<id>> \o original

\* vscode.postMessage({ command: 'showError', text })
ShowErrorPosted(text) == [command |-> "showError", text |-> text]

NoPlayer == "No player or file data found. Please load a file first."
GifFailed == "Failed to export GIF: "

\* The data url FileReader.readAsDataURL gives for the captured blob
GifDataUrl == StringData(DataUrlString(ImageGif, <<71, 73, 70, 56>>))

UnchangedByGif == UNCHANGED <<filesList, windowFilename, loaded>>

\* The click listener up to `await window.player.save2gif(window.filedata)`:
\* without player or file data showError is posted; else both functions are
\* replaced, what they were being kept in the handler's constants
ExportGifClick ==
    /\ nextExport <= MaxExports
    /\ lastEvent' = Event("exportGif", nextExport)
    /\ nextExport' = nextExport + 1
    /\ IF loaded.null
       THEN /\ toHost' = <<ShowErrorPosted(NoPlayer)>>
            /\ UNCHANGED <<createObjectURL, anchorClick, gifExports>>
       ELSE /\ toHost' = <<>>
            /\ gifExports' =
                   Append(gifExports,
                          [id |-> nextExport, pc |-> "save2gif",
                           originalCreateObjectURL |-> createObjectURL,
                           originalClick |-> anchorClick,
                           capturedBlob |-> FALSE])
            /\ createObjectURL' = Override(nextExport, createObjectURL)
            /\ anchorClick' = Override(nextExport, anchorClick)
    /\ UnchangedByGif
    /\ UnchangedByBridge

\* save2gif returns, having handed a blob to URL.createObjectURL or not: the
\* handler puts back what its constants hold and awaits the timer
Save2GifReturns(i, captured) ==
    /\ i \in 1..Len(gifExports)
    /\ gifExports[i].pc = "save2gif"
    /\ lastEvent' = Event("save2gifReturned", gifExports[i].id)
    /\ createObjectURL' = gifExports[i].originalCreateObjectURL
    /\ anchorClick' = gifExports[i].originalClick
    /\ gifExports' = [gifExports EXCEPT ![i].pc = "timer",
                                        ![i].capturedBlob = captured]
    /\ toHost' = <<>>
    /\ UNCHANGED nextExport
    /\ UnchangedByGif
    /\ UnchangedByBridge

\* save2gif throws: the catch block posts showError and the handler ends
Save2GifThrows(i) ==
    /\ i \in 1..Len(gifExports)
    /\ gifExports[i].pc = "save2gif"
    /\ lastEvent' = Event("save2gifThrew", gifExports[i].id)
    /\ gifExports' = RemoveAt(gifExports, i)
    /\ toHost' = <<ShowErrorPosted(GifFailed)>>
    /\ UNCHANGED <<createObjectURL, anchorClick, nextExport>>
    /\ UnchangedByGif
    /\ UnchangedByBridge

\* The timer of 100 ms fires: the captured blob is read and posted as
\* exportFile, or the handler throws and the catch block posts showError
TimerFires(i) ==
    /\ i \in 1..Len(gifExports)
    /\ gifExports[i].pc = "timer"
    /\ lastEvent' = Event("timer", gifExports[i].id)
    /\ gifExports' = RemoveAt(gifExports, i)
    /\ toHost' = IF gifExports[i].capturedBlob
                 THEN <<ExportMessage(BridgeExportName(windowFilename, TypeGif),
                                      TypeGif, GifDataUrl)>>
                 ELSE <<ShowErrorPosted(GifFailed)>>
    /\ UNCHANGED <<createObjectURL, anchorClick, nextExport>>
    /\ UnchangedByGif
    /\ UnchangedByBridge

\* The file the exports are made of
GifSource == LoadFileReceived(Basename(PathA), <<"[", "1", "]">>)

GifNext ==
    \/ ReceiveLoadFile(GifSource, Viewer(BridgeNames, "loadFile"))
    \/ ExportGifClick
    \/ \E i \in 1..MaxExports, captured \in BOOLEAN : Save2GifReturns(i, captured)
    \/ \E i \in 1..MaxExports : Save2GifThrows(i)
    \/ \E i \in 1..MaxExports : TimerFires(i)

GifSpec == BridgeInit /\ [][GifNext]_vars

\* ------------------------------------------------------------------------
\* C37 as claimed: whenever no GIF export handler is suspended,
\* URL.createObjectURL and HTMLAnchorElement.prototype.click are the
\* browser's functions, as before the first export.
C37_OverridesRestored ==
    gifExports = <<>> => createObjectURL = Native /\ anchorClick = Native

====
